---- MODULE Spec2Model ----
(***************************************************************************)
(* Instagram -> Telegram bridge (TelegramBridge), the realtime dedup       *)
(* window (InstagramBot.isNewMessageById) and the rate-limited follow       *)
(* queue (FollowersRealtimeModule), modelled as interleaved asynchronous    *)
(* handlers.  Every await on a platform or store call is a suspension       *)
(* point: the code between two awaits is one atomic step.                   *)
(***************************************************************************)
EXTENDS Integers, Sequences, FiniteSets, TLC

\* ------------------------------------------------------------------ bounds
MaxTopics == 2        \* forum topics the destination platform hands out
MaxMsgs == 2          \* inbound messages handled in one run of Spec
MaxFaults == 1        \* adverse events in one run: failed platform / store
                      \* calls and forum topics deleted by an operator
MaxRelayMsgs == 1     \* inbound messages handled in one run of SpecRelay
MaxTgMsgs == 1        \* destination-topic messages handled in one run of SpecRelay
MaxDeliveries == 4    \* realtime deliveries in one run of SpecDedup
maxProcessedMessageIds == 2   \* capacity of the dedup window (1000 in the
                              \* constructor, scaled down)
MaxItems == 4           \* follow-back items queued in one run of SpecQueue
MaxToggles == 1         \* autofollow commands in one run of SpecQueue
MaxEach == 1            \* events of each kind in one run of SpecBoundary
MaxEachTicks == 2       \* interval firings in one run of SpecBoundary
MaxTicks == 8         \* firings of the 30 s interval in one run of SpecQueue
HourTicks == 3        \* interval firings per hourly window (120, scaled down)
maxFollowsPerHour == 2        \* config.followers.maxFollowsPerHour
MaxSweeps == 2          \* `autorequests on` commands in one run of SpecSweep
MaxRequests == 2        \* connection requests that arrive in one run of SpecSweep
MaxSweepTicks == 2      \* interval firings in one run of SpecSweep
MaxSweepFollowers == 3  \* new followers in one run of SpecSweep
MaxReceives == 3        \* realtime 'receive' events in one run of SpecClient
MaxClientMsgs == 3      \* handleMessage calls in one run of SpecClient

\* ------------------------------------------------------------------ values
Conv == {"c1", "c2"}
NoTopic == 0
Topics == 1..MaxTopics

\* Message bodies are sequences of characters.
Bodies ==
  { <<>>, <<"a">>, <<" ", "A">>, <<"b", "a">>, <<"A", "b">> }
FilterWords == { <<"a">>, <<"b", "b">> }

\* item kinds as InstagramBot.handleMessage hands them to the bridge
Kinds == {"text", "like", "photo", "photo_nourl", "voice", "live_video_event"}

VARIABLES
  telegramConfig,          \* config.telegram: bot token and chat id
  enabled,                 \* this.enabled
  filters,                 \* this.filters
  chatMappings,            \* this.chatMappings : conversation -> topic id
  store,                   \* chat records of the bridge collection
  creatingTopics,          \* this.creatingTopics : conversation -> promise
  topicVerificationCache,  \* this.topicVerificationCache : topic -> bool
  tgTopics,                \* forum topics that exist on the destination
  nextTopicId,             \* next message_thread_id the destination hands out
  creations,               \* creation promises (the async closure's position)
  handlers,                \* running/finished handleInstagramMessage calls
  tgHandlers,              \* running/finished handleTelegramMessage calls
  faults,                  \* adverse events so far
  processedMessageIds,     \* InstagramBot.processedMessageIds, insertion order
  deliveries,              \* realtime deliveries so far and what became of them
  followQueue,             \* FollowersRealtimeModule.followQueue
  isProcessingQueue,       \* this.isProcessingQueue
  followCount,             \* this.followCount
  followResetTime,         \* this.followResetTime, in interval firings
  now,                     \* Date.now(), in interval firings
  drains,                  \* processFollowQueue calls that went past the guards
  rateLimited,             \* heads of the queue a rate-limited tick has met
  guarded,                 \* a tick has returned at the drain guard
  autoFollowBack,          \* config.followers.autoFollowBack
  followersCache,          \* this.followersCache, its keys
  followingCache,          \* this.followingCache, its keys
  followerEvents,          \* new-follower events handled so far
  toggles,                 \* autofollow commands handled so far
  windowNo,                \* hourly windows opened so far
  dispatchLog,             \* follow actions issued: item, window, result
  autoAcceptRequests,      \* config.followers.autoAcceptRequests
  pendingRequests,         \* connection requests pending on the platform
  requested,               \* users whose connection request has arrived
  sweeps,                  \* processFollowRequests calls, from the command on
  approvals,               \* approveFollowRequest calls that came back
  ready,                   \* InstagramClient.ready
  eventsToReplay,          \* InstagramClient.eventsToReplay
  initPc,                  \* where InstagramClient.initialize() stands
  received,                \* 'receive' events emitted by the realtime client
  realtimeHandled,         \* events handleRealtimeReceive was called with
  usersCache,              \* InstagramClient.cache.users, its keys
  messageCalls             \* InstagramClient.handleMessage calls

bridgeVars ==
  << telegramConfig, enabled, filters, chatMappings, store, creatingTopics,
     topicVerificationCache, tgTopics, nextTopicId, creations, handlers,
     tgHandlers, faults >>

dedupVars == << processedMessageIds, deliveries >>

queueVars ==
  << followQueue, isProcessingQueue, followCount, followResetTime, now, drains,
     rateLimited, guarded, autoFollowBack, followersCache, followingCache,
     followerEvents, toggles, windowNo, dispatchLog >>

sweepVars ==
  << autoAcceptRequests, pendingRequests, requested, sweeps, approvals >>

clientVars ==
  << ready, eventsToReplay, initPc, received, realtimeHandled, usersCache,
     messageCalls >>

vars == << bridgeVars, dedupVars, queueVars, sweepVars, clientVars >>

\* ------------------------------------------------------------ string helpers
ToLowerChar(ch) ==
  CASE ch = "A" -> "a"
    [] ch = "B" -> "b"
    [] OTHER -> ch

ToLowerCase(s) == [i \in 1..Len(s) |-> ToLowerChar(s[i])]

RECURSIVE TrimStart(_)
TrimStart(s) ==
  IF s # <<>> /\ Head(s) = " " THEN TrimStart(Tail(s)) ELSE s

RECURSIVE TrimEnd(_)
TrimEnd(s) ==
  IF s # <<>> /\ s[Len(s)] = " " THEN TrimEnd(SubSeq(s, 1, Len(s) - 1)) ELSE s

Trim(s) == TrimEnd(TrimStart(s))

StartsWith(s, w) == Len(w) <= Len(s) /\ SubSeq(s, 1, Len(w)) = w

\* the filter loop of handleInstagramMessage: (text || '').toLowerCase().trim()
BlockedInbound(body) ==
  \E word \in filters : StartsWith(Trim(ToLowerCase(body)), word)

\* the filter loop of handleTelegramMessage: (text?.trim() || '').toLowerCase()
BlockedOutbound(body) ==
  \E word \in filters : StartsWith(ToLowerCase(Trim(body)), word)

\* ------------------------------------------------------------ message kinds
\* InstagramBot.getMessageType
MessageType(kind) ==
  CASE kind = "photo" -> "photo"
    [] kind = "photo_nourl" -> "photo"
    [] OTHER -> kind

\* InstagramBot.extractMediaData: hasMedia / mediaUrl
HasMedia(kind) == kind \in {"photo", "photo_nourl", "voice"}
HasMediaUrl(kind) == kind \in {"photo", "voice"}

\* String.prototype.toUpperCase on the type names used here
ToUpperCase(type) ==
  CASE type = "photo" -> "PHOTO"
    [] type = "voice" -> "VOICE"
    [] type = "live_video_event" -> "LIVE_VIDEO_EVENT"
    [] type = "like" -> "LIKE"
    [] OTHER -> "TEXT"

\* the text each branch of handleInstagramMessage / handleInstagramMedia sends
PlainText(body) == [tag |-> "plain", type |-> "", text |-> body]
HeartText == [tag |-> "plain", type |-> "", text |-> <<"<3">>]
UntaggedText(type, body) == [tag |-> "plain", type |-> "", text |-> body]
BracketText(type, body) == [tag |-> "bracket", type |-> ToUpperCase(type), text |-> body]
MediaFallbackText(type, body) == [tag |-> "mediafallback", type |-> type, text |-> body]
MediaItem(type, body) == [tag |-> "media", type |-> type, text |-> body]
NoForm == [tag |-> "none", type |-> "", text |-> <<>>]

\* the dispatch chain of handleInstagramMessage (lines 411-423) and the
\* head of handleInstagramMedia (lines 434-437)
Dispatch(kind, body) ==
  LET type == MessageType(kind) IN
  IF type \in {"text", "link"} THEN [how |-> "simple", form |-> PlainText(body)]
  ELSE IF HasMedia(kind) THEN
    IF ~HasMediaUrl(kind)
      THEN [how |-> "simple", form |-> BracketText(type, <<>>)]
      ELSE [how |-> "media", form |-> MediaItem(type, body)]
  ELSE IF type = "like" THEN [how |-> "simple", form |-> HeartText]
  ELSE [how |-> "simple", form |-> BracketText(type, body)]

\* ------------------------------------------------------------ destination
\* answers of getChat for a topic
\* ("notfound": error_code 400 "chat not found"; "badrequest": error_code
\* 400 with another description; "error": any failure without code 400)
GetChatResponses(t) ==
  IF t \in tgTopics THEN {"ok", "badrequest", "error"}
                    ELSE {"notfound", "badrequest", "error"}

\* answers of sendMessage / sendPhoto / sendVoice into a topic
SendResponses(t) ==
  IF t \in tgTopics THEN {"ok", "error"} ELSE {"threadnotfound", "error"}

\* ---------------------------------------------------------------- initial
\* A handleInstagramMessage call.  firstContact, resolved, invalidated and
\* verifyResp (the answer getChat gave to its verification) are history: whether the call arrived while the conversation had neither
\* a mapping nor a settled creation, whether getOrCreateTopic has returned
\* to it, and whether it deleted the mapping.
NewHandler(c, k, b) ==
  [conv |-> c, kind |-> k, body |-> b, pc |-> "saveUser", topic |-> NoTopic,
   promise |-> 0, started |-> FALSE, form |-> NoForm, tried |-> {},
   delivered |-> {}, outcome |-> "pending", resolved |-> FALSE,
   verifyResp |-> "none",
   sendResp |-> "none",
   invalidated |-> FALSE,
   firstContact |-> /\ chatMappings[c] = NoTopic
                    /\ \A k2 \in 1..Len(creations) :
                         creations[k2].conv = c => creations[k2].pc # "settled"]

\* config.telegram as initialize() finds it: token and chat id present, one
\* of them missing, or one of them still the placeholder of the sample file
TelegramConfigs == {"ok", "missing", "placeholder"}

\* initialize(): without a usable token and chat id it warns and returns,
\* leaving this.enabled as the constructor set it
InitializeAlways(cfg) == TRUE
Initialize(cfg) == cfg = "ok"

\* The bridge after initialize(): the collection is either empty, or holds
\* the chat record an earlier run saved for c1 (topic 1), which
\* loadMappingsFromDb copies into chatMappings when the bridge starts; the
\* topic of that record may have been deleted while the program was down.
InitBridge ==
  /\ telegramConfig \in TelegramConfigs
  /\ enabled = Initialize(telegramConfig)
  /\ \E loaded \in BOOLEAN :
       /\ store = [c \in Conv |-> IF loaded /\ c = "c1" THEN 1 ELSE NoTopic]
       /\ chatMappings = IF enabled THEN store ELSE [c \in Conv |-> NoTopic]
       /\ tgTopics \in (IF loaded THEN {{1}, {}} ELSE {{}})
       /\ nextTopicId = IF loaded THEN 2 ELSE 1
  /\ creatingTopics = [c \in Conv |-> 0]
  /\ topicVerificationCache = [t \in Topics |-> "none"]
  /\ creations = <<>>
  /\ handlers = <<>>
  /\ tgHandlers = <<>>
  /\ faults = 0

\* The awaited calls whose rejection is received by a catch block of the
\* handler that made them or of one of its callers: createForumTopic in the
\* creation closure, updateOne in saveChatMapping, getChat in
\* verifyTopicExists, sendMessage in sendSimpleMessage, the media send in
\* handleInstagramMedia, deleteOne (awaited inside the catch block of
\* sendSimpleMessage) in handleInstagramMessage, the source-platform send in
\* handleTelegramMessage / handleTelegramMedia, ig.user.info in handleMessage,
\* friendship.create in followUser.
TrySites ==
  {"createForumTopic", "updateOne", "getChat", "sendMessage", "mediaSend",
   "deleteOne", "igSend", "userInfo", "friendshipCreate"}

\* the catch blocks of the function that awaits the call, and no caller's
InsideOwnTry(site) == site \in TrySites \ {"deleteOne"}
InsideTry(site) == site \in TrySites

\* where a call goes on after the awaited call at a site has failed: at the
\* point its catch block leads to, or nowhere if the rejection escapes
PcAfterFailure(site, next) == IF InsideTry(site) THEN next ELSE "raised"

\* a platform or store call fails (ok = FALSE) only within the fault budget
Fault(ok) ==
  IF ok THEN UNCHANGED faults
  ELSE /\ faults < MaxFaults
       /\ faults' = faults + 1

\* InstagramBot constructor
InitDedup ==
  /\ processedMessageIds = <<>>
  /\ deliveries = <<>>

\* FollowersRealtimeModule constructor
InitQueue ==
  /\ followQueue = <<>>
  /\ isProcessingQueue = FALSE
  /\ followCount = 0
  /\ now = 0
  /\ followResetTime = now + HourTicks
  /\ drains = <<>>
  /\ rateLimited = {}
  /\ guarded = FALSE
  /\ autoFollowBack \in BOOLEAN
  /\ followersCache = {}
  /\ followingCache = {2}
  /\ followerEvents = <<>>
  /\ toggles = 0
  /\ windowNo = 0
  /\ dispatchLog = <<>>

\* config.followers.autoAcceptRequests as the configuration file has it,
\* no sweep called yet
InitSweep ==
  /\ autoAcceptRequests = FALSE
  /\ pendingRequests = {}
  /\ requested = {}
  /\ sweeps = <<>>
  /\ approvals = <<>>

\* InstagramClient constructor
InitClient ==
  /\ ready = FALSE
  /\ eventsToReplay = <<>>
  /\ initPc = "idle"
  /\ received = 0
  /\ realtimeHandled = <<>>
  /\ usersCache = {}
  /\ messageCalls = <<>>

\* the whole program after start-up, no filter loaded, follow-back on
Init ==
  /\ InitBridge
  /\ filters = {}
  /\ InitDedup
  /\ InitQueue
  /\ InitSweep
  /\ InitClient
  /\ autoFollowBack

\* the same with any filter set loadFiltersFromDb may have loaded
InitRelay ==
  /\ InitBridge
  /\ filters \in (IF enabled THEN SUBSET FilterWords ELSE {{}})
  /\ InitDedup
  /\ InitQueue
  /\ InitSweep
  /\ InitClient
  /\ autoFollowBack

\* the words of the filter records in the collection; nothing in the
\* program writes them, so they are whatever was stored
StoredWords == FilterWords \cup { <<"A">> }

\* loadFiltersFromDb: every doc.word is added to the set as it is stored
LoadFiltersFromDb(docs) == docs

\* start-up with a configured bridge whose collection holds filter records
InitFilters ==
  /\ InitBridge
  /\ telegramConfig = "ok"
  /\ store["c1"] = NoTopic
  /\ \E docs \in SUBSET StoredWords : filters = LoadFiltersFromDb(docs)
  /\ InitDedup
  /\ InitQueue
  /\ InitSweep
  /\ InitClient
  /\ autoFollowBack

\* start-up with a configured bridge and an empty collection
InitCore ==
  /\ Init
  /\ telegramConfig = "ok"
  /\ store["c1"] = NoTopic

\* the same with the follow-back flag as the configuration file has it
InitFollowers ==
  /\ InitBridge
  /\ telegramConfig = "ok"
  /\ store["c1"] = NoTopic
  /\ filters = {}
  /\ InitDedup
  /\ InitQueue
  /\ InitSweep
  /\ InitClient

\* ------------------------------------------------- sendSimpleMessage (sync)
\* The part of sendSimpleMessage up to its first await: verifyTopicExists
\* answers from the cache, or asks the destination.
SendSimple(h, t, form) ==
  IF topicVerificationCache[t] = "none"
    THEN [h EXCEPT !.pc = "verify", !.form = form]
  ELSE IF topicVerificationCache[t] = "true"
    THEN [h EXCEPT !.pc = "send", !.form = form,
                   !.tried = @ \cup {[form |-> form, topic |-> t, verified |-> TRUE]}]
  ELSE [h EXCEPT !.pc = "deleteMapping", !.form = form, !.outcome = "dropped",
                 !.invalidated = TRUE]

\* handleInstagramMessage from the result of getOrCreateTopic to the next await
Relay(h, t) ==
  IF t = NoTopic THEN [h EXCEPT !.pc = "done", !.outcome = "notopic", !.resolved = TRUE]
  ELSE IF BlockedInbound(h.body)
    THEN [h EXCEPT !.pc = "done", !.topic = t, !.outcome = "filtered", !.resolved = TRUE]
  ELSE
    LET d == Dispatch(h.kind, h.body)
        g == [h EXCEPT !.topic = t, !.resolved = TRUE]
    IN IF d.how = "media"
         THEN [g EXCEPT !.pc = "mediaSend", !.form = d.form,
                        !.tried = @ \cup {[form |-> d.form, topic |-> t, verified |-> FALSE]}]
         ELSE SendSimple(g, t, d.form)

\* chatMappings after a handler step: the stale-topic branch of
\* sendSimpleMessage deletes the entry before it awaits the store
MappingsAfter(h2) ==
  IF h2.pc = "deleteMapping"
    THEN [chatMappings EXCEPT ![h2.conv] = NoTopic]
    ELSE chatMappings

\* ------------------------------------------------------------------ actions
\* handleInstagramMessage is entered: it returns at once while the bridge
\* is disabled, else it awaits saveUserMapping
Receive(c, k, b) ==
  /\ handlers' = Append(handlers,
       IF enabled THEN NewHandler(c, k, b)
       ELSE [NewHandler(c, k, b) EXCEPT !.pc = "done", !.outcome = "disabled"])
  /\ UNCHANGED << telegramConfig, enabled, filters, chatMappings, store, creatingTopics,
                  topicVerificationCache, tgTopics, nextTopicId, creations,
                  tgHandlers, faults >>
  /\ UNCHANGED << dedupVars, queueVars, sweepVars, clientVars >>

\* getOrCreateTopic, first test: this.chatMappings.has(instagramThreadId)
NeverMapped(c) == FALSE
HasMapping(c) == chatMappings[c] # NoTopic

\* getOrCreateTopic, second test: this.creatingTopics.has(instagramThreadId)
NoCreationInFlight(c) == FALSE
CreationInFlight(c) == creatingTopics[c] # 0

\* saveUserMapping returned: getOrCreateTopic up to its first await
UserSaved(i) ==
  /\ handlers[i].pc = "saveUser"
  /\ LET h == handlers[i]
         c == h.conv
     IN IF HasMapping(c)
          THEN LET h2 == Relay(h, chatMappings[c]) IN
               /\ handlers' = [handlers EXCEPT ![i] = h2]
               /\ chatMappings' = MappingsAfter(h2)
               /\ UNCHANGED << creatingTopics, creations >>
        ELSE IF CreationInFlight(c)
          THEN /\ handlers' = [handlers EXCEPT ![i] =
                    [h EXCEPT !.pc = "awaitTopic", !.promise = creatingTopics[c]]]
               /\ UNCHANGED << chatMappings, creatingTopics, creations >>
        ELSE /\ creations' = Append(creations,
                    [conv |-> c, pc |-> "createTopic", topic |-> NoTopic,
                     result |-> NoTopic, persisted |-> FALSE,
                     welcome |-> "none"])
             /\ creatingTopics' = [creatingTopics EXCEPT ![c] = Len(creations) + 1]
             /\ handlers' = [handlers EXCEPT ![i] =
                    [h EXCEPT !.pc = "awaitTopic", !.promise = Len(creations) + 1,
                              !.started = TRUE]]
             /\ UNCHANGED chatMappings
  /\ UNCHANGED << telegramConfig, enabled, filters, store, topicVerificationCache, tgTopics,
                  nextTopicId, tgHandlers, faults >>
  /\ UNCHANGED << dedupVars, queueVars, sweepVars, clientVars >>

\* the registry entry after the closure's finally block
KeepRegistryEntry(c) == creatingTopics
ClearRegistry(c) == [creatingTopics EXCEPT ![c] = 0]

\* topic.message_thread_id of the topic createForumTopic made
ReusedTopicId == IF nextTopicId > 1 THEN nextTopicId - 1 ELSE nextTopicId
FreshTopicId == nextTopicId

\* createForumTopic answered.  On success the closure goes on to
\* saveChatMapping and awaits updateOne; on failure it returns null and its
\* finally block clears the registry entry of the conversation.
CreateTopicDone(k, ok) ==
  /\ creations[k].pc = "createTopic"
  /\ LET c == creations[k].conv IN
     IF ok
       THEN /\ nextTopicId <= MaxTopics
            /\ creations' = [creations EXCEPT ![k] =
                   [@ EXCEPT !.pc = "saveMapping", !.topic = FreshTopicId]]
            /\ tgTopics' = tgTopics \cup {FreshTopicId}
            /\ nextTopicId' = nextTopicId + 1
            /\ UNCHANGED creatingTopics
       ELSE /\ creations' = [creations EXCEPT ![k] =
                   [@ EXCEPT !.pc = PcAfterFailure("createForumTopic", "settled"),
                             !.result = NoTopic]]
            /\ creatingTopics' = ClearRegistry(c)
            /\ UNCHANGED << tgTopics, nextTopicId >>
  /\ UNCHANGED << telegramConfig, enabled, filters, chatMappings, store, topicVerificationCache,
                  handlers, tgHandlers >>
  /\ Fault(ok)
  /\ UNCHANGED << dedupVars, queueVars, sweepVars, clientVars >>

\* saveChatMapping: updateOne (upsert) answered.  Only on success are the
\* store record and the in-memory entry written; a failure is logged and
\* swallowed.  The closure then awaits the welcome message.
SaveStoreOnly(c, t, ok) ==
  /\ store' = IF ok THEN [store EXCEPT ![c] = t] ELSE store
  /\ UNCHANGED chatMappings
SaveChatMapping(c, t, ok) ==
  IF ok
    THEN /\ store' = [store EXCEPT ![c] = t]
         /\ chatMappings' = [chatMappings EXCEPT ![c] = t]
    ELSE UNCHANGED << store, chatMappings >>

SaveMappingDone(k, ok) ==
  /\ creations[k].pc = "saveMapping"
  /\ SaveChatMapping(creations[k].conv, creations[k].topic, ok)
  /\ creations' = [creations EXCEPT ![k] =
         [@ EXCEPT !.pc = IF ok THEN "welcome"
                                 ELSE PcAfterFailure("updateOne", "welcome"),
                   !.persisted = ok]]
  /\ UNCHANGED << telegramConfig, enabled, filters, creatingTopics, topicVerificationCache,
                  tgTopics, nextTopicId, handlers, tgHandlers >>
  /\ Fault(ok)
  /\ UNCHANGED << dedupVars, queueVars, sweepVars, clientVars >>

\* sendWelcomeMessage, what became of its summary once sendMessage answered
WelcomeOutcome(ok) == IF ok THEN "sent" ELSE "failed"

\* sendWelcomeMessage: the sendMessage of the summary answered.  On success
\* the message is in the topic and pinChatMessage is awaited; a failure is
\* caught inside sendWelcomeMessage, the closure returns
\* topic.message_thread_id and its finally block runs.
WelcomeSent(k, ok) ==
  /\ creations[k].pc = "welcome"
  /\ creations' = [creations EXCEPT ![k] =
         IF ok THEN [@ EXCEPT !.pc = "pin", !.welcome = WelcomeOutcome(ok)]
         ELSE [@ EXCEPT !.pc = "settled", !.result = creations[k].topic,
                        !.welcome = WelcomeOutcome(ok)]]
  /\ creatingTopics' = IF ok THEN creatingTopics
                             ELSE ClearRegistry(creations[k].conv)
  /\ Fault(ok)
  /\ UNCHANGED << telegramConfig, enabled, filters, chatMappings, store, topicVerificationCache,
                  tgTopics, nextTopicId, handlers, tgHandlers >>
  /\ UNCHANGED << dedupVars, queueVars, sweepVars, clientVars >>

\* sendWelcomeMessage returned after pinning (it catches its own errors):
\* the closure returns topic.message_thread_id and its finally block runs
WelcomeDone(k) ==
  /\ creations[k].pc = "pin"
  /\ creations' = [creations EXCEPT ![k] =
         [@ EXCEPT !.pc = "settled", !.result = creations[k].topic]]
  /\ creatingTopics' = ClearRegistry(creations[k].conv)
  /\ UNCHANGED << telegramConfig, enabled, filters, chatMappings, store, topicVerificationCache,
                  tgTopics, nextTopicId, handlers, tgHandlers, faults >>
  /\ UNCHANGED << dedupVars, queueVars, sweepVars, clientVars >>

\* a handler awaiting a creation promise resumes with its value
TopicResolved(i) ==
  /\ handlers[i].pc = "awaitTopic"
  /\ creations[handlers[i].promise].pc = "settled"
  /\ LET h2 == Relay(handlers[i], creations[handlers[i].promise].result) IN
     /\ handlers' = [handlers EXCEPT ![i] = h2]
     /\ chatMappings' = MappingsAfter(h2)
  /\ UNCHANGED << telegramConfig, enabled, filters, store, creatingTopics,
                  topicVerificationCache, tgTopics, nextTopicId, creations,
                  tgHandlers, faults >>
  /\ UNCHANGED << dedupVars, queueVars, sweepVars, clientVars >>

\* verifyTopicExists: getChat answered.  "ok" is cached as present, error
\* code 400 / "chat not found" is cached as absent, any other error answers
\* true without caching.  sendSimpleMessage then either awaits sendMessage or
\* drops the mapping and awaits deleteOne.
VerifyTopicExists(resp) ==
  IF resp \in {"notfound", "badrequest"} THEN FALSE ELSE TRUE

\* verifyTopicExists, the cache after getChat answered resp for topic t
CacheEveryAnswer(t, resp) ==
  IF resp \in {"notfound", "badrequest"}
    THEN [topicVerificationCache EXCEPT ![t] = "false"]
    ELSE [topicVerificationCache EXCEPT ![t] = "true"]
CacheAfter(t, resp) ==
  IF resp = "ok" THEN [topicVerificationCache EXCEPT ![t] = "true"]
  ELSE IF resp \in {"notfound", "badrequest"}
    THEN [topicVerificationCache EXCEPT ![t] = "false"]
  ELSE topicVerificationCache

VerifyDone(i, resp) ==
  /\ handlers[i].pc = "verify"
  /\ resp \in GetChatResponses(handlers[i].topic)
  /\ LET h == handlers[i]
         t == h.topic
         exists == VerifyTopicExists(resp)
     IN /\ topicVerificationCache' = CacheAfter(t, resp)
        /\ IF exists
             THEN /\ handlers' = [handlers EXCEPT ![i] =
                        [h EXCEPT !.pc = IF resp = "ok" THEN "send"
                                         ELSE PcAfterFailure("getChat", "send"),
                                  !.verifyResp = resp,
                                  !.tried = @ \cup {[form |-> h.form, topic |-> t,
                                                     verified |-> TRUE]}]]
                  /\ UNCHANGED chatMappings
             ELSE /\ handlers' = [handlers EXCEPT ![i] =
                        [h EXCEPT !.pc = PcAfterFailure("getChat", "deleteMapping"),
                                  !.outcome = "dropped",
                                  !.verifyResp = resp, !.invalidated = TRUE]]
                  /\ chatMappings' = [chatMappings EXCEPT ![h.conv] = NoTopic]
  /\ UNCHANGED << telegramConfig, enabled, filters, store, creatingTopics, tgTopics,
                  nextTopicId, creations, tgHandlers >>
  /\ Fault(resp \in {"ok", "notfound"})
  /\ UNCHANGED << dedupVars, queueVars, sweepVars, clientVars >>

\* sendSimpleMessage: sendMessage answered.  "message thread not found"
\* drops the mapping and awaits deleteOne; any other error is logged.
NeverMissing(resp) == FALSE
ThreadMissing(resp) == resp = "threadnotfound"

SendDone(i, resp) ==
  /\ handlers[i].pc = "send"
  /\ resp \in SendResponses(handlers[i].topic)
  /\ LET h == handlers[i] IN
     IF resp = "ok"
       THEN /\ handlers' = [handlers EXCEPT ![i] =
                  [h EXCEPT !.pc = "done", !.outcome = "relayed",
                            !.sendResp = resp,
                            !.delivered = @ \cup {h.form}]]
            /\ UNCHANGED chatMappings
     ELSE IF ThreadMissing(resp)
       THEN /\ handlers' = [handlers EXCEPT ![i] =
                  [h EXCEPT !.pc = PcAfterFailure("sendMessage", "deleteMapping"),
                            !.outcome = "sendfailed",
                            !.sendResp = resp,
                            !.invalidated = TRUE]]
            /\ chatMappings' = [chatMappings EXCEPT ![h.conv] = NoTopic]
     ELSE /\ handlers' = [handlers EXCEPT ![i] =
                  [h EXCEPT !.pc = PcAfterFailure("sendMessage", "done"),
                            !.sendResp = resp,
                            !.outcome = "sendfailed"]]
          /\ UNCHANGED chatMappings
  /\ UNCHANGED << telegramConfig, enabled, filters, store, creatingTopics,
                  topicVerificationCache, tgTopics, nextTopicId, creations,
                  tgHandlers >>
  /\ Fault(resp # "error")
  /\ UNCHANGED << dedupVars, queueVars, sweepVars, clientVars >>

\* handleInstagramMedia: the media send (for voice: download, then sendVoice)
\* answered.  Any failure lands in its catch block, which falls back to
\* sendSimpleMessage with a "[Media: type] caption" text.
MediaSendDone(i, resp) ==
  /\ handlers[i].pc = "mediaSend"
  /\ resp \in SendResponses(handlers[i].topic)
  /\ LET h == handlers[i] IN
     IF resp = "ok"
       THEN /\ handlers' = [handlers EXCEPT ![i] =
                  [h EXCEPT !.pc = "done", !.outcome = "relayed",
                            !.delivered = @ \cup {h.form}]]
            /\ UNCHANGED chatMappings
       ELSE LET h2 == SendSimple(h, h.topic,
                        MediaFallbackText(MessageType(h.kind), h.body)) IN
            /\ handlers' = [handlers EXCEPT ![i] =
                   [h2 EXCEPT !.pc = PcAfterFailure("mediaSend", h2.pc)]]
            /\ chatMappings' = MappingsAfter(h2)
  /\ UNCHANGED << telegramConfig, enabled, filters, store, creatingTopics,
                  topicVerificationCache, tgTopics, nextTopicId, creations,
                  tgHandlers >>
  /\ Fault(resp # "error")
  /\ UNCHANGED << dedupVars, queueVars, sweepVars, clientVars >>

\* deleteOne answered: the chat record is gone on success
DeleteDone(i, ok) ==
  /\ handlers[i].pc = "deleteMapping"
  /\ store' = IF ok THEN [store EXCEPT ![handlers[i].conv] = NoTopic] ELSE store
  /\ handlers' = [handlers EXCEPT ![i] =
         [@ EXCEPT !.pc = IF ok THEN "done"
                                 ELSE PcAfterFailure("deleteOne", "done")]]
  /\ UNCHANGED << telegramConfig, enabled, filters, chatMappings, creatingTopics,
                  topicVerificationCache, tgTopics, nextTopicId, creations,
                  tgHandlers >>
  /\ Fault(ok)
  /\ UNCHANGED << dedupVars, queueVars, sweepVars, clientVars >>

\* an operator of the destination group deletes a forum topic
DeleteTopic(t) ==
  /\ t \in tgTopics
  /\ faults < MaxFaults
  /\ faults' = faults + 1
  /\ tgTopics' = tgTopics \ {t}
  /\ UNCHANGED << telegramConfig, enabled, filters, chatMappings, store, creatingTopics,
                  topicVerificationCache, nextTopicId, creations, handlers,
                  tgHandlers >>
  /\ UNCHANGED << dedupVars, queueVars, sweepVars, clientVars >>

\* ------------------------------------------------ destination -> source
TgKinds == {"text", "photo", "other"}

\* findInstagramThreadIdByTopic: the conversations mapped to a topic
ThreadsOfTopic(t) == {c \in Conv : chatMappings[c] = t}

\* handleTelegramMessage up to its first await on the source platform.
\* A text message carries its body in msg.text, a photo in msg.caption, any
\* other kind carries none; the filter loop reads msg.text only.  A message
\* without a mapped conversation gets the unknown-conversation reaction, a
\* filtered one the blocked reaction; handleTelegramMedia sets the
\* in-progress reaction before it downloads the file.  reaction is the last
\* reaction the call asked setReaction for, igResult what the source
\* platform answered.
TgReceive(t, k, b) ==
  /\ enabled
  /\ k = "text" => b # <<>>
  /\ k = "other" => b = <<>>
  /\ LET text == IF k = "text" THEN b ELSE <<>>
         base == [topic |-> t, kind |-> k, body |-> b, conv |-> "none",
                  pc |-> "done", reaction |-> "none", igSends |-> 0,
                  igResult |-> "none"]
     IN IF ThreadsOfTopic(t) = {}
          THEN tgHandlers' = Append(tgHandlers, [base EXCEPT !.reaction = "unknown"])
        ELSE \E c \in ThreadsOfTopic(t) :
          IF BlockedOutbound(text)
            THEN tgHandlers' = Append(tgHandlers,
                   [base EXCEPT !.conv = c, !.reaction = "blocked"])
          ELSE tgHandlers' = Append(tgHandlers,
                   [base EXCEPT !.conv = c, !.pc = "igSend",
                                !.reaction = IF k = "photo" THEN "progress"
                                                            ELSE "none"])
  /\ UNCHANGED << telegramConfig, enabled, filters, chatMappings, store, creatingTopics,
                  topicVerificationCache, tgTopics, nextTopicId, creations,
                  handlers, faults >>
  /\ UNCHANGED << dedupVars, queueVars, sweepVars, clientVars >>

\* what the source platform can answer to a send: a truthy result, a falsy
\* result, or an exception
IgSendResponses == {"ok", "false", "raised"}

\* what the command used for a kind can answer: sendMessage (a text, an
\* unsupported kind) returns true or rethrows the error of broadcastText,
\* sendPhoto returns the result of broadcastPhoto or rethrows
SendResults(k) ==
  IF k = "photo" THEN {"ok", "false", "raised"} ELSE {"ok", "raised"}

\* the reaction chosen after the send: thumbs-up `if (sendResult)`, the
\* failure reaction from the else branches and the catch blocks
AlwaysSuccess(resp) == "success"
ReactionFor(resp) == IF resp = "ok" THEN "success" ELSE "failure"

\* the source platform answered the send: sendMessage for a text or an
\* unsupported kind, getFileLink / download / sendPhoto(caption) for a photo
IgSendDone(j, resp) ==
  /\ tgHandlers[j].pc = "igSend"
  /\ resp \in SendResults(tgHandlers[j].kind)
  /\ tgHandlers' = [tgHandlers EXCEPT ![j] =
         [@ EXCEPT !.pc = IF resp = "ok" THEN "done"
                                 ELSE PcAfterFailure("igSend", "done"),
                   !.reaction = ReactionFor(resp),
                   !.igResult = resp,
                   !.igSends = IF resp = "ok" THEN 1 ELSE 0]]
  /\ Fault(resp = "ok")
  /\ UNCHANGED << telegramConfig, enabled, filters, chatMappings, store, creatingTopics,
                  topicVerificationCache, tgTopics, nextTopicId, creations,
                  handlers >>
  /\ UNCHANGED << dedupVars, queueVars, sweepVars, clientVars >>

\* ------------------------------------------------------------ specification
Next ==
  \/ \E c \in Conv : Len(handlers) < MaxMsgs /\ Receive(c, "text", <<"b", "a">>)
  \/ \E i \in 1..Len(handlers) : UserSaved(i)
  \/ \E k \in 1..Len(creations), ok \in BOOLEAN : CreateTopicDone(k, ok)
  \/ \E k \in 1..Len(creations), ok \in BOOLEAN : SaveMappingDone(k, ok)
  \/ \E k \in 1..Len(creations), ok \in BOOLEAN : WelcomeSent(k, ok)
  \/ \E k \in 1..Len(creations) : WelcomeDone(k)
  \/ \E i \in 1..Len(handlers) : TopicResolved(i)
  \/ \E i \in 1..Len(handlers), resp \in {"ok", "notfound", "badrequest", "error"} :
        VerifyDone(i, resp)
  \/ \E i \in 1..Len(handlers), resp \in {"ok", "threadnotfound", "error"} : SendDone(i, resp)
  \/ \E i \in 1..Len(handlers), ok \in BOOLEAN : DeleteDone(i, ok)
  \/ \E t \in Topics : DeleteTopic(t)

Spec == Init /\ [][Next]_vars

\* The same with sendMessage calls that come back: the HTTP request of
\* telegramBot.sendMessage resolves or rejects
SpecSendFair ==
  /\ Init
  /\ [][Next]_vars
  /\ WF_vars(\E i \in 1..Len(handlers), resp \in {"ok", "threadnotfound", "error"} :
               SendDone(i, resp))

\* Relay of every kind and body, in both directions, under a filter set
NextRelay ==
  \/ \E c \in Conv, k \in Kinds, b \in Bodies :
        Len(handlers) < MaxRelayMsgs /\ Receive(c, k, b)
  \/ \E i \in 1..Len(handlers) : UserSaved(i)
  \/ \E k \in 1..Len(creations), ok \in BOOLEAN : CreateTopicDone(k, ok)
  \/ \E k \in 1..Len(creations), ok \in BOOLEAN : SaveMappingDone(k, ok)
  \/ \E k \in 1..Len(creations), ok \in BOOLEAN : WelcomeSent(k, ok)
  \/ \E k \in 1..Len(creations) : WelcomeDone(k)
  \/ \E i \in 1..Len(handlers) : TopicResolved(i)
  \/ \E i \in 1..Len(handlers), resp \in {"ok", "notfound", "badrequest", "error"} :
        VerifyDone(i, resp)
  \/ \E i \in 1..Len(handlers), resp \in {"ok", "threadnotfound", "error"} : SendDone(i, resp)
  \/ \E i \in 1..Len(handlers), resp \in {"ok", "threadnotfound", "error"} : MediaSendDone(i, resp)
  \/ \E i \in 1..Len(handlers), ok \in BOOLEAN : DeleteDone(i, ok)
  \/ \E t \in Topics : DeleteTopic(t)
  \/ \E t \in Topics, k \in TgKinds, b \in Bodies :
        Len(tgHandlers) < MaxTgMsgs /\ TgReceive(t, k, b)
  \/ \E j \in 1..Len(tgHandlers), resp \in IgSendResponses : IgSendDone(j, resp)

SpecRelay == InitRelay /\ [][NextRelay]_vars

\* relaying with the filter set as loadFiltersFromDb built it
SpecFilters == InitFilters /\ [][NextRelay]_vars

\* -------------------------------------------------------- dedup window
MsgIds == {"m1", "m2", "m3"}
NoId == "none"

\* this.processedMessageIds.has(messageId)
Has(id) == \E n \in 1..Len(processedMessageIds) : processedMessageIds[n] = id

\* isNewMessageById, the answer
NeverSeen(messageId) == messageId # NoId
IsNewMessageById(messageId) == messageId # NoId /\ ~Has(messageId)

\* isNewMessageById, the window after add(): over capacity, the identifier
\* inserted first is deleted
NeverOverflows == FALSE
Overflows == Len(processedMessageIds) + 1 > maxProcessedMessageIds
WindowAfterAdd(messageId) ==
  IF Overflows THEN Tail(Append(processedMessageIds, messageId))
               ELSE Append(processedMessageIds, messageId)

\* handleMessage, the sender's username after the identity lookup: the
\* fetched one, or user_<id> when ig.user.info raised
NoFallback(found) == "none"
SenderUsername(found) == IF found THEN "fetched" ELSE "user_id"

\* message.item_type of a realtime item: a type the bridge knows, one it
\* does not, or none at all
ItemTypes == {"text", "media", "live_video_event", "none"}

\* handleMessage, the type of the processed message:
\* message.item_type || 'text'
TableType(itemType) ==
  CASE itemType = "text" -> "text"
    [] itemType = "media" -> "photo"
    [] OTHER -> "other"
ProcessedType(itemType) == IF itemType = "none" THEN "text" ELSE itemType

\* the 'message' or the 'direct' realtime event delivers an item of the one
\* conversation: a new identifier is recorded and the item goes to
\* handleMessage, any other delivery returns at once.  handleMessage takes
\* the sender from the thread context the event carries inline, and goes
\* straight on to the message handlers; without it, it awaits ig.user.info.
OnRealtime(event, messageId, inline, itemType) ==
  /\ Len(deliveries) < MaxDeliveries
  /\ IF IsNewMessageById(messageId)
       THEN /\ processedMessageIds' = WindowAfterAdd(messageId)
            /\ deliveries' = Append(deliveries,
                 [id |-> messageId, event |-> event, result |-> "canonical",
                  evicted |-> IF Overflows THEN Head(processedMessageIds) ELSE NoId,
                  pc |-> IF inline THEN "handlers" ELSE "lookup",
                  lookup |-> "none",
                  username |-> IF inline THEN "inline" ELSE "none",
                  type |-> ProcessedType(itemType), raw |-> itemType])
       ELSE /\ UNCHANGED processedMessageIds
            /\ deliveries' = Append(deliveries,
                 [id |-> messageId, event |-> event, result |-> "suppressed",
                  evicted |-> NoId, pc |-> "done", lookup |-> "none",
                  username |-> "none", type |-> "none", raw |-> "none"])
  /\ UNCHANGED << bridgeVars, queueVars, sweepVars, clientVars >>

\* ig.user.info answered or raised: the processed message is built and
\* handed to the registered message handlers
LookupDone(n, found) ==
  /\ deliveries[n].pc = "lookup"
  /\ deliveries' = [deliveries EXCEPT ![n] =
         [@ EXCEPT !.pc = IF found THEN "handlers"
                                 ELSE PcAfterFailure("userInfo", "handlers"),
                   !.lookup = IF found THEN "found" ELSE "failed",
                   !.username = SenderUsername(found)]]
  /\ Fault(found)
  /\ UNCHANGED processedMessageIds
  /\ UNCHANGED << telegramConfig, enabled, filters, chatMappings, store,
                  creatingTopics, topicVerificationCache, tgTopics, nextTopicId,
                  creations, handlers, tgHandlers >>
  /\ UNCHANGED << queueVars, sweepVars, clientVars >>

\* the message handlers returned: emit('message', processedMessage), after
\* which the call is done
HandlersDone(n) ==
  /\ deliveries[n].pc = "handlers"
  /\ deliveries' = [deliveries EXCEPT ![n] = [@ EXCEPT !.pc = "done"]]
  /\ UNCHANGED processedMessageIds
  /\ UNCHANGED << bridgeVars, queueVars, sweepVars, clientVars >>

NextDedup ==
  \/ \E event \in {"message", "direct"}, messageId \in MsgIds \cup {NoId},
        inline \in BOOLEAN :
        OnRealtime(event, messageId, inline, "text")
  \/ \E n \in 1..Len(deliveries), found \in BOOLEAN : LookupDone(n, found)
  \/ \E n \in 1..Len(deliveries) : HandlersDone(n)

SpecDedup == InitCore /\ [][NextDedup]_vars

\* ---------------------------------------------------------- follow queue
Users == 1..MaxItems

\* the follower the next 'new follower' event is about, when it is a user not
\* seen before: users are numbered in the order they first appear
NextFollower ==
  CHOOSE u \in Users \ followersCache : \A v \in Users \ followersCache : u <= v

\* queueFollow
QueueFollow(userId) == Append(followQueue, userId)

\* handleNewFollower reads the configuration object at every event
AutoFollowAlways == TRUE
AutoFollowBackNow == autoFollowBack

\* handleNewFollower: a known follower returns at once; a new one is cached,
\* and queued for a follow-back if the flag is on and the user is not followed
\* yet (the welcome message and the followers record that come after touch
\* neither the queue nor the caches, and their failures are caught in place)
NewFollower(userId) ==
  /\ IF userId \in followersCache
       THEN UNCHANGED << followersCache, followQueue, followerEvents >>
       ELSE LET queue == AutoFollowBackNow /\ userId \notin followingCache
            IN /\ followersCache' = followersCache \cup {userId}
               /\ followQueue' = IF queue THEN QueueFollow(userId) ELSE followQueue
               /\ followerEvents' = Append(followerEvents,
                    [user |-> userId, flag |-> autoFollowBack,
                     followed |-> userId \in followingCache,
                     toggles |-> toggles])
  /\ UNCHANGED << isProcessingQueue, followCount, followResetTime, now, drains,
                  windowNo, dispatchLog, rateLimited, guarded, autoFollowBack,
                  followingCache, toggles >>

\* the 'newFollower' listener of setupEventListeners
HandleNewFollower(userId) ==
  /\ NewFollower(userId)
  /\ UNCHANGED << bridgeVars, dedupVars, sweepVars, clientVars >>

\* handleAutoFollowCommand, 'on' or 'off': the flag is written before the
\* reply is sent
HandleAutoFollowCommand(on) ==
  /\ toggles < MaxToggles
  /\ autoFollowBack' = on
  /\ toggles' = toggles + 1
  /\ UNCHANGED << followQueue, isProcessingQueue, followCount, followResetTime,
                  now, drains, windowNo, dispatchLog, rateLimited, guarded,
                  followersCache, followingCache, followerEvents >>
  /\ UNCHANGED << bridgeVars, dedupVars, sweepVars, clientVars >>

\* processFollowQueue, the rate check
NoRateLimit(count) == FALSE
RateLimitReached(count) == count >= maxFollowsPerHour

\* processFollowQueue, the queue it leaves when the rate check returns: the
\* return comes before the shift()
DropHead == Tail(followQueue)
QueueAfterRateLimit == followQueue

\* processFollowQueue, the drain guard
NeverDraining == FALSE
Draining == isProcessingQueue

\* processFollowQueue at time t, up to its await of followUser
ProcessFollowQueue(t) ==
  IF Draining \/ followQueue = <<>>
    THEN /\ guarded' = TRUE
         /\ UNCHANGED << followQueue, isProcessingQueue, followCount,
                         followResetTime, drains, windowNo, dispatchLog,
                         rateLimited >>
  ELSE
    LET reset == t > followResetTime
        count == IF reset THEN 0 ELSE followCount
        window == IF reset THEN windowNo + 1 ELSE windowNo
    IN /\ followResetTime' = IF reset THEN t + HourTicks ELSE followResetTime
       /\ windowNo' = window
       /\ UNCHANGED guarded
       /\ IF RateLimitReached(count)
            THEN /\ followCount' = count
                 /\ followQueue' = QueueAfterRateLimit
                 /\ rateLimited' = rateLimited \cup {Head(followQueue)}
                 /\ UNCHANGED << isProcessingQueue, drains, dispatchLog >>
            ELSE /\ followCount' = count
                 /\ isProcessingQueue' = TRUE
                 /\ followQueue' = Tail(followQueue)
                 /\ drains' = Append(drains, [pc |-> "follow",
                                              item |-> Head(followQueue)])
                 /\ dispatchLog' = Append(dispatchLog,
                      [item |-> Head(followQueue), window |-> window,
                       result |-> "pending"])
                 /\ UNCHANGED rateLimited

\* the 30 s interval fires: processFollowQueue runs if the queue is non-empty
Tick ==
  /\ now < MaxTicks
  /\ now' = now + 1
  /\ IF followQueue # <<>>
       THEN ProcessFollowQueue(now')
       ELSE UNCHANGED << followQueue, isProcessingQueue, followCount,
                         followResetTime, drains, windowNo, dispatchLog,
                         rateLimited, guarded >>
  /\ UNCHANGED << autoFollowBack, followersCache, followingCache,
                  followerEvents, toggles >>
  /\ UNCHANGED << bridgeVars, dedupVars, sweepVars, clientVars >>

\* processFollowQueue, the counter after followUser answered
CountEveryAttempt(success) == followCount + 1
CountAfterFollow(success) == IF success THEN followCount + 1 ELSE followCount

\* followUser answered; the call goes on to await the random delay
FollowDone(k, success) ==
  /\ drains[k].pc = "follow"
  /\ followCount' = CountAfterFollow(success)
  /\ drains' = [drains EXCEPT ![k].pc =
                    IF success THEN "delay"
                    ELSE PcAfterFailure("friendshipCreate", "delay")]
  /\ dispatchLog' = [dispatchLog EXCEPT ![k].result =
                        IF success THEN "ok" ELSE "failed"]
  /\ UNCHANGED << followQueue, isProcessingQueue, followResetTime, now,
                  windowNo, rateLimited, guarded, autoFollowBack,
                  followersCache, followingCache, followerEvents, toggles >>
  /\ UNCHANGED << bridgeVars, dedupVars, sweepVars, clientVars >>

\* isProcessingQueue after the finally block of processFollowQueue
HeldGuard == TRUE
ReleasedGuard == FALSE

\* the delay elapsed: the finally block releases the drain guard
DelayDone(k) ==
  /\ drains[k].pc = "delay"
  /\ isProcessingQueue' = ReleasedGuard
  /\ drains' = [drains EXCEPT ![k].pc = "done"]
  /\ UNCHANGED << followQueue, followCount, followResetTime, now, windowNo,
                  dispatchLog, rateLimited, guarded, autoFollowBack,
                  followersCache, followingCache, followerEvents, toggles >>
  /\ UNCHANGED << bridgeVars, dedupVars, sweepVars, clientVars >>

NextQueue ==
  \/ \E userId \in followersCache \cup
                     (IF followersCache = Users THEN {} ELSE {NextFollower}) :
        HandleNewFollower(userId)
  \/ \E on \in BOOLEAN : HandleAutoFollowCommand(on)
  \/ Tick
  \/ \E k \in 1..Len(drains), success \in BOOLEAN : FollowDone(k, success)
  \/ \E k \in 1..Len(drains) : DelayDone(k)

SpecQueue == InitFollowers /\ [][NextQueue]_vars

\* The clock read again from a later origin: Date.now() and followResetTime
\* are both counted from the present firing, which keeps `Date.now() >
\* this.followResetTime` as it was; a reset time already passed stays passed.
Rebase ==
  /\ now = MaxTicks
  /\ now' = 0
  /\ followResetTime' = IF followResetTime >= now THEN followResetTime - now
                                                  ELSE 0 - 1
  /\ UNCHANGED << followQueue, isProcessingQueue, followCount, drains,
                  rateLimited, guarded, autoFollowBack, followersCache,
                  followingCache, followerEvents, toggles, windowNo,
                  dispatchLog >>
  /\ UNCHANGED << bridgeVars, dedupVars, sweepVars, clientVars >>

NextQueueLive == NextQueue \/ Rebase

\* The follow queue with an interval that keeps firing (setInterval is never
\* cleared while the module lives) and with follow calls and delays that
\* come back
SpecQueueLive ==
  /\ InitFollowers
  /\ [][NextQueueLive]_vars
  /\ WF_vars(Tick)
  /\ WF_vars(Rebase)
  /\ WF_vars(\E k \in 1..Len(drains), success \in BOOLEAN : FollowDone(k, success))
  /\ WF_vars(\E k \in 1..Len(drains) : DelayDone(k))

\* ------------------------------------------------ connection-request sweep
Requesters == 1..MaxRequests

\* the pending requests as ig.feed.pendingFriendships().items() lists them
RECURSIVE Listing(_)
Listing(S) ==
  IF S = {} THEN <<>>
  ELSE LET u == CHOOSE x \in S : \A y \in S : x <= y
       IN <<u>> \o Listing(S \ {u})

\* a user asks to follow the account
RequestArrives(u) ==
  /\ u \notin requested
  /\ requested' = requested \cup {u}
  /\ pendingRequests' = pendingRequests \cup {u}
  /\ UNCHANGED << autoAcceptRequests, sweeps, approvals >>
  /\ UNCHANGED << bridgeVars, dedupVars, queueVars, clientVars >>

\* handleAutoRequestsCommand 'on': the flag is set and the reply awaited;
\* processFollowRequests is called after the reply
AutoRequestsOn ==
  /\ autoAcceptRequests' = TRUE
  /\ sweeps' = Append(sweeps, [pc |-> "reply", requests |-> <<>>, pos |-> 0])
  /\ UNCHANGED << pendingRequests, requested, approvals >>
  /\ UNCHANGED << bridgeVars, dedupVars, queueVars, clientVars >>

\* handleAutoRequestsCommand 'off' (given while the flag is on; given while
\* it is off it changes nothing)
AutoRequestsOff ==
  /\ autoAcceptRequests
  /\ autoAcceptRequests' = FALSE
  /\ UNCHANGED << pendingRequests, requested, sweeps, approvals >>
  /\ UNCHANGED << bridgeVars, dedupVars, queueVars, clientVars >>

\* processFollowRequests, its entry: a sweep already running does not keep
\* another from starting
SweepMayStart(k) == autoAcceptRequests

\* the reply was sent (or sendMessage raised, which ends the command handler
\* before the sweep is called): processFollowRequests returns at once when
\* the flag is off, else it awaits the listing
ReplyDone(k, ok) ==
  /\ sweeps[k].pc = "reply"
  /\ sweeps' = [sweeps EXCEPT ![k].pc =
        IF ~ok THEN "raised"
        ELSE IF SweepMayStart(k) THEN "listing" ELSE "done"]
  /\ Fault(ok)
  /\ UNCHANGED << telegramConfig, enabled, filters, chatMappings, store,
                  creatingTopics, topicVerificationCache, tgTopics, nextTopicId,
                  creations, handlers, tgHandlers >>
  /\ UNCHANGED << autoAcceptRequests, pendingRequests, requested, approvals >>
  /\ UNCHANGED << dedupVars, queueVars, clientVars >>

\* getPendingFollowRequests answered: the list, or [] when the feed raised
ListingDone(k, ok) ==
  /\ sweeps[k].pc = "listing"
  /\ LET list == IF ok THEN Listing(pendingRequests) ELSE <<>> IN
     sweeps' = [sweeps EXCEPT ![k] =
        [pc |-> IF list = <<>> THEN "done" ELSE "approve",
         requests |-> list, pos |-> IF list = <<>> THEN 0 ELSE 1]]
  /\ Fault(ok)
  /\ UNCHANGED << telegramConfig, enabled, filters, chatMappings, store,
                  creatingTopics, topicVerificationCache, tgTopics, nextTopicId,
                  creations, handlers, tgHandlers >>
  /\ UNCHANGED << autoAcceptRequests, pendingRequests, requested, approvals >>
  /\ UNCHANGED << dedupVars, queueVars, clientVars >>

\* approveFollowRequest answered true or false; the loop awaits its delay
ApproveDone(k, success) ==
  /\ sweeps[k].pc = "approve"
  /\ LET u == sweeps[k].requests[sweeps[k].pos] IN
     /\ approvals' = Append(approvals,
                             [user |-> u, sweep |-> k, success |-> success])
     /\ pendingRequests' = IF success THEN pendingRequests \ {u}
                                      ELSE pendingRequests
  /\ sweeps' = [sweeps EXCEPT ![k].pc = "delay"]
  /\ Fault(success)
  /\ UNCHANGED << telegramConfig, enabled, filters, chatMappings, store,
                  creatingTopics, topicVerificationCache, tgTopics, nextTopicId,
                  creations, handlers, tgHandlers >>
  /\ UNCHANGED << autoAcceptRequests, requested >>
  /\ UNCHANGED << dedupVars, queueVars, clientVars >>

\* processFollowRequests, the end of its for-of loop
ListEndOrQuota(k) ==
  \/ sweeps[k].pos = Len(sweeps[k].requests)
  \/ followCount >= maxFollowsPerHour
ListEnd(k) == sweeps[k].pos = Len(sweeps[k].requests)

\* the 2 s delay elapsed: the loop goes on to the next request of its list
SweepDelayDone(k) ==
  /\ sweeps[k].pc = "delay"
  /\ sweeps' = [sweeps EXCEPT ![k] =
        IF ListEnd(k)
          THEN [@ EXCEPT !.pc = "done"]
          ELSE [@ EXCEPT !.pc = "approve", !.pos = @ + 1]]
  /\ UNCHANGED << autoAcceptRequests, pendingRequests, requested, approvals >>
  /\ UNCHANGED << bridgeVars, dedupVars, queueVars, clientVars >>

\* Sweeps started by commands while requests arrive and the follow queue is
\* being drained
NextSweep ==
  \/ \E u \in Requesters : RequestArrives(u)
  \/ Len(sweeps) < MaxSweeps /\ AutoRequestsOn
  \/ AutoRequestsOff
  \/ \E k \in 1..Len(sweeps), ok \in BOOLEAN : ReplyDone(k, ok)
  \/ \E k \in 1..Len(sweeps), ok \in BOOLEAN : ListingDone(k, ok)
  \/ \E k \in 1..Len(sweeps), success \in BOOLEAN : ApproveDone(k, success)
  \/ \E k \in 1..Len(sweeps) : SweepDelayDone(k)
  \/ followersCache # Users /\ Len(followerEvents) < MaxSweepFollowers
        /\ HandleNewFollower(NextFollower)
  \/ now < MaxSweepTicks /\ Tick
  \/ \E k \in 1..Len(drains), success \in BOOLEAN : FollowDone(k, success)
  \/ \E k \in 1..Len(drains) : DelayDone(k)

\* start-up with follow-back switched on
InitSweeping == InitFollowers /\ autoFollowBack

SpecSweep == InitSweeping /\ [][NextSweep]_vars

\* ------------------------------------------------ InstagramClient
Senders == 1..2

\* initialize(): login() answered.  On success setupRealtimeConnection
\* registers the realtime handlers and awaits realtime.connect; a failed
\* login is rethrown.
LoginDone(ok) ==
  /\ initPc = "idle"
  /\ initPc' = IF ok THEN "connecting" ELSE "failed"
  /\ Fault(ok)
  /\ UNCHANGED << telegramConfig, enabled, filters, chatMappings, store,
                  creatingTopics, topicVerificationCache, tgTopics, nextTopicId,
                  creations, handlers, tgHandlers >>
  /\ UNCHANGED << ready, eventsToReplay, received, realtimeHandled, usersCache,
                  messageCalls >>
  /\ UNCHANGED << dedupVars, queueVars, sweepVars >>

\* the 'receive' listener, its test of the ready flag
NeverBuffered == FALSE
Buffered == ~ready

\* the realtime client emits 'receive' (the listener is registered): the
\* event is pushed on eventsToReplay while the client is not ready, else it
\* goes to handleRealtimeReceive.  Events are numbered in arrival order.
RealtimeReceive ==
  /\ initPc \in {"connecting", "done"}
  /\ received' = received + 1
  /\ IF Buffered
       THEN /\ eventsToReplay' = Append(eventsToReplay, received')
            /\ UNCHANGED realtimeHandled
       ELSE /\ realtimeHandled' = Append(realtimeHandled,
                                         [event |-> received', replayed |-> FALSE])
            /\ UNCHANGED eventsToReplay
  /\ UNCHANGED << ready, initPc, usersCache, messageCalls >>
  /\ UNCHANGED << bridgeVars, dedupVars, queueVars, sweepVars >>

\* initialize(): realtime.connect answered.  On success ready is set, and
\* the forEach over eventsToReplay hands every buffered event to
\* handleRealtimeReceive before the buffer is emptied; a failure is rethrown.
ConnectDone(ok) ==
  /\ initPc = "connecting"
  /\ IF ok
       THEN /\ ready' = TRUE
            /\ realtimeHandled' = realtimeHandled \o
                 [n \in 1..Len(eventsToReplay) |->
                    [event |-> eventsToReplay[n], replayed |-> TRUE]]
            /\ eventsToReplay' = <<>>
            /\ initPc' = "done"
       ELSE /\ initPc' = "failed"
            /\ UNCHANGED << ready, realtimeHandled, eventsToReplay >>
  /\ Fault(ok)
  /\ UNCHANGED << telegramConfig, enabled, filters, chatMappings, store,
                  creatingTopics, topicVerificationCache, tgTopics, nextTopicId,
                  creations, handlers, tgHandlers >>
  /\ UNCHANGED << received, usersCache, messageCalls >>
  /\ UNCHANGED << dedupVars, queueVars, sweepVars >>

\* disconnect(): realtime.disconnect answered, the flags are cleared
Disconnect ==
  /\ initPc = "done"
  /\ ready' = FALSE
  /\ initPc' = "disconnected"
  /\ UNCHANGED << eventsToReplay, received, realtimeHandled, usersCache,
                  messageCalls >>
  /\ UNCHANGED << bridgeVars, dedupVars, queueVars, sweepVars >>

\* handleMessage, its test `!this.cache.users.has(userId)` before
\* emit('newFollower'), made on the cache as it is at that line
IsNewFollower(cache, userId) == userId \notin cache

\* handleMessage from the user cache on: the sender is put into the cache,
\* 'messageCreate' is emitted, and 'newFollower' is emitted if the test
\* holds, which runs the listener of the followers module
CacheAndEmit(call, known) ==
  LET cache == usersCache \cup {call.user}
      new == IsNewFollower(cache, call.user)
  IN /\ usersCache' = cache
     /\ IF new THEN NewFollower(call.user) ELSE UNCHANGED queueVars
     /\ UNCHANGED << ready, eventsToReplay, initPc, received, realtimeHandled >>
     /\ UNCHANGED << dedupVars, sweepVars >>

\* handleMessage is called for a message of sender userId: a cached sender
\* or one found in the thread data goes straight on, else ig.user.info is
\* awaited
HandleMessage(userId, inline) ==
  /\ initPc \in {"connecting", "done"}
  /\ LET known == userId \in usersCache
         call == [user |-> userId, known |-> known, pc |-> "userInfo",
                  newFollower |-> 0]
     IN IF known \/ inline
          THEN /\ messageCalls' = Append(messageCalls,
                     [call EXCEPT !.pc = "done",
                        !.newFollower =
                          IF IsNewFollower(usersCache \cup {userId}, userId)
                            THEN 1 ELSE 0])
               /\ CacheAndEmit(call, known)
          ELSE /\ messageCalls' = Append(messageCalls, call)
               /\ UNCHANGED << ready, eventsToReplay, initPc, received,
                               realtimeHandled, usersCache >>
               /\ UNCHANGED << dedupVars, queueVars, sweepVars >>
  /\ UNCHANGED bridgeVars

\* ig.user.info answered or raised (then user_<id> stands in)
UserInfoDone(n, found) ==
  /\ messageCalls[n].pc = "userInfo"
  /\ LET call == messageCalls[n] IN
     /\ messageCalls' = [messageCalls EXCEPT ![n] =
           [call EXCEPT !.pc = "done",
              !.newFollower =
                IF IsNewFollower(usersCache \cup {call.user}, call.user)
                  THEN 1 ELSE 0]]
     /\ CacheAndEmit(call, call.known)
  /\ Fault(found)
  /\ UNCHANGED << telegramConfig, enabled, filters, chatMappings, store,
                  creatingTopics, topicVerificationCache, tgTopics, nextTopicId,
                  creations, handlers, tgHandlers >>

NextClient ==
  \/ \E ok \in BOOLEAN : LoginDone(ok)
  \/ received < MaxReceives /\ RealtimeReceive
  \/ \E ok \in BOOLEAN : ConnectDone(ok)
  \/ Disconnect
  \/ \E userId \in Senders, inline \in BOOLEAN :
        Len(messageCalls) < MaxClientMsgs /\ HandleMessage(userId, inline)
  \/ \E n \in 1..Len(messageCalls), found \in BOOLEAN : UserInfoDone(n, found)

SpecClient == InitSweeping /\ [][NextClient]_vars

\* ------------------------------------------------------ the whole program
\* One realtime event, one inbound message for the bridge, one message in a
\* destination topic and one new follower, in any interleaving, with the
\* interval firing in between
NextBoundary ==
  \/ \E inline \in BOOLEAN, itemType \in ItemTypes :
        Len(deliveries) < MaxEach /\ OnRealtime("message", "m1", inline, itemType)
  \/ \E n \in 1..Len(deliveries), found \in BOOLEAN : LookupDone(n, found)
  \/ \E n \in 1..Len(deliveries) : HandlersDone(n)
  \/ \E k \in {"text", "photo"} :
        Len(handlers) < MaxEach /\ Receive("c1", k, <<"b", "a">>)
  \/ \E i \in 1..Len(handlers) : UserSaved(i)
  \/ \E k \in 1..Len(creations), ok \in BOOLEAN : CreateTopicDone(k, ok)
  \/ \E k \in 1..Len(creations), ok \in BOOLEAN : SaveMappingDone(k, ok)
  \/ \E k \in 1..Len(creations), ok \in BOOLEAN : WelcomeSent(k, ok)
  \/ \E k \in 1..Len(creations) : WelcomeDone(k)
  \/ \E i \in 1..Len(handlers) : TopicResolved(i)
  \/ \E i \in 1..Len(handlers), resp \in {"ok", "notfound", "badrequest", "error"} :
        VerifyDone(i, resp)
  \/ \E i \in 1..Len(handlers), resp \in {"ok", "threadnotfound", "error"} : SendDone(i, resp)
  \/ \E i \in 1..Len(handlers), resp \in {"ok", "threadnotfound", "error"} : MediaSendDone(i, resp)
  \/ \E i \in 1..Len(handlers), ok \in BOOLEAN : DeleteDone(i, ok)
  \/ \E t \in Topics : DeleteTopic(t)
  \/ \E t \in Topics :
        Len(tgHandlers) < MaxEach /\ TgReceive(t, "text", <<"a">>)
  \/ \E j \in 1..Len(tgHandlers), resp \in IgSendResponses : IgSendDone(j, resp)
  \/ followersCache # Users /\ Len(followerEvents) < MaxEach
        /\ HandleNewFollower(NextFollower)
  \/ now < MaxEachTicks /\ Tick
  \/ \E k \in 1..Len(drains), success \in BOOLEAN : FollowDone(k, success)
  \/ \E k \in 1..Len(drains) : DelayDone(k)

SpecBoundary == Init /\ [][NextBoundary]_vars

\* ------------------------------------------------- dedup / queue properties
DeliveriesOf(id) == {n \in 1..Len(deliveries) : deliveries[n].id = id}

\* C3: of the first two deliveries of one message identifier, with the
\* identifier not evicted from the window in between, the first is handed to
\* handleMessage and the second is suppressed, whichever of the 'message' and
\* 'direct' events carries each of them.
C3_IdempotentDedup ==
  \A id \in MsgIds : \A p, q \in DeliveriesOf(id) :
    ( /\ p < q
      /\ \A r \in DeliveriesOf(id) : r = p \/ r >= q
      /\ \A r \in p..q : deliveries[r].evicted # id )
    => /\ deliveries[p].result = "canonical"
       /\ deliveries[q].result = "suppressed"

\* one identifier came once by each event, another identifier in between
C3_Witness ==
  \E id \in MsgIds : \E p, q \in DeliveriesOf(id) :
    /\ p + 1 < q
    /\ deliveries[p].event # deliveries[q].event
    /\ deliveries[p].result = "canonical"
    /\ deliveries[q].result = "suppressed"

\* C4 (as stated), its upper bound: no more than maxFollowsPerHour follow
\* actions are dispatched within one hourly window.
C4_ExactlyMPerWindow ==
  \A w \in 0..windowNo :
    Cardinality({n \in 1..Len(dispatchLog) : dispatchLog[n].window = w})
      <= maxFollowsPerHour

\* C4 (amended): within one hourly window at most maxFollowsPerHour follow
\* actions succeed (a failed one is dispatched but not counted); and once
\* that many have succeeded, a step taken before the window has elapsed
\* dispatches nothing and leaves the queued items in the queue.
C4_RateLimit ==
  [][ /\ \A w \in 0..windowNo' :
           Cardinality({n \in 1..Len(dispatchLog') :
                          /\ dispatchLog'[n].window = w
                          /\ dispatchLog'[n].result = "ok"}) <= maxFollowsPerHour
      /\ ( followCount >= maxFollowsPerHour /\ now' <= followResetTime )
           => /\ dispatchLog' = dispatchLog
              /\ \/ followQueue' = followQueue
                 \/ \E u \in 1..MaxItems : followQueue' = Append(followQueue, u)
    ]_vars

\* the quota was used up in one window while an item stayed queued, and
\* that item was dispatched in a later window
C4_Witness ==
  \E w \in 0..windowNo :
    /\ Cardinality({n \in 1..Len(dispatchLog) :
                      /\ dispatchLog[n].window = w
                      /\ dispatchLog[n].result = "ok"}) = maxFollowsPerHour
    /\ \E n \in 1..Len(dispatchLog) : dispatchLog[n].window > w

\* ------------------------------------------------------- mapping properties
CreationsOf(c) == {k \in 1..Len(creations) : creations[k].conv = c}
HandlersOf(c) == {i \in 1..Len(handlers) : handlers[i].conv = c}

\* C1 (as stated): inbound messages that arrive for the same conversation
\* while it has neither a mapping nor a settled creation cause exactly one
\* topic creation between them, and getOrCreateTopic returns the same result
\* (one topic id, or failure) to all of them.
C1_OneCreationSameResult ==
  \A c \in Conv : \A i, j \in HandlersOf(c) :
    (handlers[i].firstContact /\ handlers[j].firstContact) =>
      /\ (handlers[i].started /\ handlers[j].started) => i = j
      /\ (handlers[i].resolved /\ handlers[j].resolved)
            => handlers[i].topic = handlers[j].topic

\* C2 (as stated): as long as no handler has invalidated the mapping of a
\* conversation, at most one destination topic has been created for it,
\* whatever the outcome of persisting the mapping was.
C2_AtMostOneTopicCreated ==
  \A c \in Conv :
    (\A i \in HandlersOf(c) : ~handlers[i].invalidated) =>
      Cardinality({k \in CreationsOf(c) : creations[k].topic # NoTopic}) <= 1

\* C6: when the handler of an inbound message gets past topic verification
\* and the verification of its topic is negative, the conversation is no
\* longer mapped to that topic; and a creation whose mapping was persisted
\* has recorded its topic id in chatMappings and in the store, an id that
\* differs from every topic an invalidating handler of the conversation held.
C6_StaleTopicSelfHeal ==
  [][ /\ \A i \in 1..Len(handlers) :
           ( /\ handlers[i].pc \in {"saveUser", "awaitTopic", "verify"}
             /\ handlers'[i].pc \notin {"saveUser", "awaitTopic", "verify"}
             /\ handlers'[i].topic # NoTopic
             /\ topicVerificationCache'[handlers'[i].topic] = "false" )
           => chatMappings'[handlers[i].conv] # handlers'[i].topic
      /\ \A k \in 1..Len(creations) :
           ( /\ creations[k].pc = "saveMapping"
             /\ creations'[k].pc = "welcome"
             /\ creations'[k].persisted )
           => /\ chatMappings'[creations[k].conv] = creations[k].topic
              /\ store'[creations[k].conv] = creations[k].topic
              /\ \A i \in HandlersOf(creations[k].conv) :
                   handlers[i].invalidated => handlers[i].topic # creations[k].topic
    ]_vars

\* a negative verification dropped the mapping and the next message's
\* creation recorded a new topic id in memory and in the store
C6_Witness ==
  \E i \in 1..Len(handlers), k \in 1..Len(creations) :
    /\ handlers[i].invalidated
    /\ topicVerificationCache[handlers[i].topic] = "false"
    /\ creations[k].conv = handlers[i].conv
    /\ creations[k].persisted
    /\ creations[k].topic # handlers[i].topic
    /\ chatMappings[handlers[i].conv] = creations[k].topic
    /\ store[handlers[i].conv] = creations[k].topic

\* C8: no two distinct conversations are mapped to the same topic id, in
\* chatMappings and in the stored chat records, so the reverse lookup finds
\* at most one conversation per topic.
C8_MappingInjective ==
  /\ \A c, d \in Conv :
       (c # d /\ chatMappings[c] # NoTopic) => chatMappings[c] # chatMappings[d]
  /\ \A c, d \in Conv :
       (c # d /\ store[c] # NoTopic) => store[c] # store[d]
  /\ \A t \in Topics : Cardinality(ThreadsOfTopic(t)) <= 1

\* both conversations are mapped
C8_Witness ==
  \A c \in Conv : chatMappings[c] # NoTopic /\ store[c] # NoTopic

\* C9: after every step, no settled creation is still registered in
\* creatingTopics; and a getOrCreateTopic call for an unmapped conversation
\* all of whose earlier creations have settled starts a creation of its own.
C9_RegistryCleared ==
  [][ /\ \A k \in 1..Len(creations') :
           creations'[k].pc = "settled" => creatingTopics'[creations'[k].conv] # k
      /\ \A i \in 1..Len(handlers) :
           ( /\ handlers[i].pc = "saveUser"
             /\ handlers'[i].pc = "awaitTopic"
             /\ \A k \in CreationsOf(handlers[i].conv) : creations[k].pc = "settled" )
           => /\ handlers'[i].started
              /\ handlers'[i].promise = Len(creations) + 1
              /\ creations'[handlers'[i].promise].pc = "createTopic"
    ]_vars

\* a creation settled without leaving a mapping and a later call started
\* a second creation for the conversation
C9_Witness ==
  \E i \in 1..Len(handlers) :
    /\ handlers[i].started
    /\ \E k \in CreationsOf(handlers[i].conv) :
         k < handlers[i].promise /\ creations[k].pc = "settled"
    /\ \A k \in 1..Len(creations) :
         creations[k].pc = "settled" => creatingTopics[creations[k].conv] # k

\* --------------------------------------------------------- relay properties
\* the lowercase, trimmed body starts with an entry of the filter set
StartsWithFilterEntry(body) ==
  \E word \in filters :
    LET t == Trim(ToLowerCase(body)) IN
      Len(word) <= Len(t) /\ \A n \in 1..Len(word) : t[n] = word[n]

\* C5 (as stated): a message whose lowercase, trimmed body starts with a filter entry
\* causes no send, inbound (no send into the topic is attempted) and outbound
\* (no send to the source conversation; the handler is finished); a message
\* whose body does not start with a filter entry, such as one that holds the
\* word further in, passes the filter in both directions.
C5_FilterSuppression ==
  /\ \A i \in 1..Len(handlers) :
       StartsWithFilterEntry(handlers[i].body) =>
         /\ handlers[i].tried = {}
         /\ handlers[i].delivered = {}
         /\ handlers[i].pc \in {"saveUser", "awaitTopic", "done"}
  /\ \A j \in 1..Len(tgHandlers) :
       StartsWithFilterEntry(tgHandlers[j].body) =>
         /\ tgHandlers[j].igSends = 0
         /\ tgHandlers[j].pc = "done"
         /\ tgHandlers[j].reaction \in {"blocked", "unknown"}
  /\ \A i \in 1..Len(handlers) :
       ( /\ ~StartsWithFilterEntry(handlers[i].body)
         /\ handlers[i].resolved
         /\ handlers[i].topic # NoTopic )
       => /\ handlers[i].form # NoForm
          /\ handlers[i].outcome # "filtered"
  /\ \A j \in 1..Len(tgHandlers) :
       ( /\ ~StartsWithFilterEntry(tgHandlers[j].body)
         /\ tgHandlers[j].conv # "none" )
       => tgHandlers[j].reaction # "blocked"

\* the text the fallback branch sends for a live_video_event item
LiveVideoTag(body) ==
  [tag |-> "bracket", type |-> "LIVE_VIDEO_EVENT", text |-> body]

\* C7: an item of a kind without a handler of its own that has a topic and
\* passes the filter is sent as the bracketed upper-case type tag with its
\* body, through sendSimpleMessage; nothing else is sent for it, it is
\* delivered when the destination accepts the send, and it is lost only when
\* the destination refuses (topic gone or send failed).
C7_FallbackDispatch ==
  \A i \in 1..Len(handlers) :
    ( /\ handlers[i].kind = "live_video_event"
      /\ handlers[i].resolved
      /\ handlers[i].topic # NoTopic
      /\ ~StartsWithFilterEntry(handlers[i].body) )
    => /\ handlers[i].form = LiveVideoTag(handlers[i].body)
       /\ handlers[i].tried \subseteq
            {[form |-> LiveVideoTag(handlers[i].body),
              topic |-> handlers[i].topic, verified |-> TRUE]}
       /\ handlers[i].pc \in {"verify", "send", "deleteMapping", "done"}
       /\ handlers[i].pc = "done" =>
            \/ /\ handlers[i].outcome = "relayed"
               /\ handlers[i].delivered = {LiveVideoTag(handlers[i].body)}
            \/ /\ handlers[i].outcome \in {"dropped", "sendfailed"}
               /\ handlers[i].delivered = {}

\* a live_video_event item with a body was delivered as its tag text
C7_Witness ==
  \E i \in 1..Len(handlers) :
    /\ handlers[i].kind = "live_video_event"
    /\ handlers[i].body # <<>>
    /\ handlers[i].outcome = "relayed"
    /\ handlers[i].delivered = {LiveVideoTag(handlers[i].body)}

\* C10 (as stated): every send attempted into a destination topic, of
\* whatever kind, came after a verifyTopicExists check of that topic.
C10_EverySendVerified ==
  \A i \in 1..Len(handlers) : \A e \in handlers[i].tried : e.verified

\* C11 (as stated): once a handler has invalidated its conversation and
\* finished, neither chatMappings, nor the verification cache, nor the stored
\* chat record still refers to the topic the conversation was mapped to.
C11_InvalidateRemovesAll ==
  \A i \in 1..Len(handlers) :
    (handlers[i].invalidated /\ handlers[i].pc = "done") =>
      /\ chatMappings[handlers[i].conv] # handlers[i].topic
      /\ topicVerificationCache[handlers[i].topic] = "none"
      /\ store[handlers[i].conv] # handlers[i].topic

\* C12 (as stated): a verification whose getChat call failed otherwise than
\* with an explicit not-found answer counts the topic as present: it caches
\* no absence and the handler does not drop the mapping.
C12_FailOpen ==
  \A i \in 1..Len(handlers) :
    handlers[i].verifyResp \in {"badrequest", "error"} =>
      handlers[i].outcome # "dropped"

\* ------------------------------------------------ follow queue properties
\* a tick that gets past the drain guard and finds the hourly quota used up
\* while the window has not elapsed
RateLimitedTick ==
  /\ now' = now + 1
  /\ followQueue # <<>>
  /\ ~isProcessingQueue
  /\ followCount >= maxFollowsPerHour
  /\ now' <= followResetTime

\* C13 (as stated): a tick that finds the hourly quota exhausted removes the
\* follow-back item at the head of the queue.
C13_HeadDropped ==
  [][ RateLimitedTick => followQueue' = Tail(followQueue) ]_vars

\* C13 (amended): a tick that finds the hourly quota exhausted leaves the
\* queue as it is and issues no follow action, so the item at the head is
\* still queued for a later tick.
C13_HeadStaysQueued ==
  [][ RateLimitedTick =>
        /\ followQueue' = followQueue
        /\ dispatchLog' = dispatchLog
        /\ followCount' = followCount ]_vars

\* an item met by a rate-limited tick was dispatched in a later window
C13_Witness ==
  \E n \in 1..Len(dispatchLog) :
    /\ dispatchLog[n].item \in rateLimited
    /\ dispatchLog[n].window > 0

ActiveDrains(ds) == {k \in 1..Len(ds) : ds[k].pc \in {"follow", "delay"}}

\* C14: at most one processFollowQueue call is between its shift() and its
\* finally block; a tick that fires while one is there dequeues nothing and
\* issues no follow action; and every tick dequeues at most one item.
C14_SingleDrain ==
  [][ /\ Cardinality(ActiveDrains(drains')) <= 1
      /\ (now' = now + 1 /\ ActiveDrains(drains) # {}) =>
            /\ followQueue' = followQueue
            /\ dispatchLog' = dispatchLog
      /\ (now' = now + 1) =>
            /\ \/ followQueue' = followQueue
               \/ followQueue # <<>> /\ followQueue' = Tail(followQueue)
            /\ Len(dispatchLog') <= Len(dispatchLog) + 1 ]_vars

\* a tick has returned at the drain guard, and the drain that held it off is
\* still awaiting its delay with an item queued behind it
C14_Witness ==
  \E k \in ActiveDrains(drains) :
    /\ drains[k].pc = "delay"
    /\ guarded
    /\ followQueue # <<>>

WasQueued(u) ==
  \/ \E n \in 1..Len(followQueue) : followQueue[n] = u
  \/ \E n \in 1..Len(dispatchLog) : dispatchLog[n].item = u

\* C19: every new-follower event is handled under the setting of
\* autoFollowBack in force when it arrives, whatever the setting was before:
\* the user is queued for a follow-back exactly when the flag is on and the
\* user is not followed already.
C19_ToggleTakesEffect ==
  \A n \in 1..Len(followerEvents) :
    WasQueued(followerEvents[n].user) <=>
      (followerEvents[n].flag /\ ~followerEvents[n].followed)

\* a follower was queued with the flag on, the operator switched it off, and
\* the next new follower, not followed yet, was not queued
C19_Witness ==
  \E n \in 2..Len(followerEvents) :
    /\ followerEvents[n - 1].toggles = 0
    /\ followerEvents[n - 1].flag
    /\ WasQueued(followerEvents[n - 1].user)
    /\ followerEvents[n].toggles = 1
    /\ ~followerEvents[n].flag
    /\ ~followerEvents[n].followed
    /\ ~WasQueued(followerEvents[n].user)

\* ------------------------------------------------ acknowledgement properties
\* C15: a handled destination-topic message ends with a reaction that
\* matches its outcome: the unknown-conversation reaction exactly when no
\* conversation was mapped to its topic (and then nothing was sent to the
\* source platform), the success reaction only if the send reported success,
\* and the failure reaction when the send raised or reported failure.
C15_AckMatchesOutcome ==
  \A j \in 1..Len(tgHandlers) :
    tgHandlers[j].pc = "done" =>
      /\ tgHandlers[j].reaction \in {"unknown", "blocked", "success", "failure"}
      /\ tgHandlers[j].reaction = "unknown" <=> tgHandlers[j].conv = "none"
      /\ tgHandlers[j].conv = "none" =>
            tgHandlers[j].igSends = 0 /\ tgHandlers[j].igResult = "none"
      /\ tgHandlers[j].reaction = "success" => tgHandlers[j].igResult = "ok"
      /\ tgHandlers[j].igResult \in {"false", "raised"} =>
            tgHandlers[j].reaction = "failure"

\* a photo of a mapped topic went to the source platform, which raised
C15_Witness ==
  \E j \in 1..Len(tgHandlers) :
    /\ tgHandlers[j].pc = "done"
    /\ tgHandlers[j].kind = "photo"
    /\ tgHandlers[j].igResult = "raised"
    /\ tgHandlers[j].reaction = "failure"

\* ------------------------------------------------ initialization properties
\* C18: when the bot token or the chat id is missing or a placeholder, the
\* bridge is disabled and stays so, and every inbound message is a no-op:
\* its handler returns at once, no topic creation is started, nothing is
\* sent, and neither the store nor the mappings change.
C18_DisabledNoOp ==
  [][ telegramConfig # "ok" =>
        /\ ~enabled /\ ~enabled'
        /\ creations' = <<>>
        /\ store' = store
        /\ chatMappings' = chatMappings
        /\ nextTopicId' = nextTopicId
        /\ \A i \in 1..Len(handlers') :
              /\ handlers'[i].pc = "done"
              /\ handlers'[i].tried = {}
              /\ handlers'[i].delivered = {} ]_vars

\* the token is a placeholder, the store holds a chat record of an earlier
\* run, and messages came in for both conversations
C18_Witness ==
  /\ telegramConfig = "placeholder"
  /\ store["c1"] = 1
  /\ \E i, j \in 1..Len(handlers) :
        /\ handlers[i].conv = "c1"
        /\ handlers[j].conv = "c2"
        /\ handlers[i].outcome = "disabled"
        /\ handlers[j].outcome = "disabled"

\* ------------------------------------------------ normalization properties
\* the step in which the canonical message of delivery n is emitted
Emits(n) == deliveries[n].pc = "handlers" /\ deliveries'[n].pc = "done"

\* C16 (as stated): the canonical messages of one conversation are emitted
\* in the order their events were delivered, whichever of them awaits the
\* identity lookup: when one is emitted, every earlier one has been.
C16_DeliveryOrderKept ==
  [][ \A n \in 1..Len(deliveries) :
        Emits(n) => \A m \in 1..(n - 1) : deliveries[m].pc = "done" ]_vars

\* C17: a message whose identity lookup failed is not dropped: it carries
\* the username synthesized from the sender id and goes on to the message
\* handlers and to emission.
C17_LookupFailureFallback ==
  \A n \in 1..Len(deliveries) :
    deliveries[n].lookup = "failed" =>
      /\ deliveries[n].result = "canonical"
      /\ deliveries[n].username = "user_id"
      /\ deliveries[n].pc \in {"handlers", "done"}

\* a message whose lookup failed has been emitted, after a later message
\* that carried its sender inline
C17_Witness ==
  \E n \in 1..Len(deliveries) :
    /\ deliveries[n].lookup = "failed"
    /\ deliveries[n].pc = "done"
    /\ \E m \in (n + 1)..Len(deliveries) : deliveries[m].username = "inline"

Canonical(id) == {n \in DeliveriesOf(id) : deliveries[n].result = "canonical"}

\* C21 (as stated): over any sequence of deliveries each message identifier
\* is handed to handleMessage at most once, however many other identifiers
\* come between two deliveries of it.
C21_AtMostOnce ==
  \A id \in MsgIds : Cardinality(Canonical(id)) <= 1

\* ------------------------------------------------ outbound command properties
\* C22 (as stated): a failed platform call is reported by every outbound
\* command as a failure result, never by raising: no send ends by raising
\* to handleTelegramMessage, and every follow ends with a true or false
\* result.
C22_FailureAsResult ==
  /\ \A j \in 1..Len(tgHandlers) : tgHandlers[j].igResult # "raised"
  /\ \A k \in 1..Len(dispatchLog) :
        dispatchLog[k].result \in {"pending", "ok", "failed"}

\* ------------------------------------------------ message type properties
KindEnumeration ==
  {"text", "photo", "video", "voice", "animated", "story", "reaction", "other"}

ResolvesMapped(i) ==
  /\ handlers[i].pc = "saveUser"
  /\ handlers'[i].pc # "saveUser"
  /\ chatMappings[handlers[i].conv] # NoTopic

\* C24: when the conversation has a mapping, getOrCreateTopic returns the
\* mapped topic id; it starts no creation, makes no topic on the
\* destination, writes nothing to the store, and leaves the mapping table
\* and the in-flight registry as they are.
C24_MappedNoEffect ==
  [][ \A i \in 1..Len(handlers) :
        ResolvesMapped(i) =>
          /\ handlers'[i].resolved
          /\ handlers'[i].topic = chatMappings[handlers[i].conv]
          /\ ~handlers'[i].started /\ handlers'[i].promise = 0
          /\ creations' = creations
          /\ creatingTopics' = creatingTopics
          /\ tgTopics' = tgTopics /\ nextTopicId' = nextTopicId
          /\ store' = store
          /\ chatMappings' = chatMappings ]_vars

\* a message for a mapped conversation got its topic while another
\* conversation's creation was in flight
C24_Witness ==
  \E i \in 1..Len(handlers) :
    /\ handlers[i].resolved /\ ~handlers[i].firstContact
    /\ handlers[i].promise = 0
    /\ handlers[i].topic # NoTopic
    /\ \E k \in 1..Len(creations) : creations[k].pc # "settled"

\* C25: the window never holds more than maxProcessedMessageIds
\* identifiers, nor one identifier twice; an insertion into a full window
\* evicts exactly the identifier inserted earliest among those present, and
\* an insertion into a window with room evicts none.
C25_WindowBounded ==
  [][ /\ Len(processedMessageIds') <= maxProcessedMessageIds
      /\ \A a, b \in 1..Len(processedMessageIds') :
            a # b => processedMessageIds'[a] # processedMessageIds'[b]
      /\ processedMessageIds' # processedMessageIds =>
            \E id \in MsgIds :
              processedMessageIds' =
                IF Len(processedMessageIds) = maxProcessedMessageIds
                  THEN Append(Tail(processedMessageIds), id)
                  ELSE Append(processedMessageIds, id) ]_vars

\* the full window took in a third identifier and dropped its oldest
C25_Witness ==
  /\ Len(processedMessageIds) = maxProcessedMessageIds
  /\ \E n \in 1..Len(deliveries) :
        /\ deliveries[n].evicted # NoId
        /\ \A a \in 1..Len(processedMessageIds) :
              processedMessageIds[a] # deliveries[n].evicted

\* ------------------------------------------------ store properties
\* an updateOne of saveChatMapping or a deleteOne of sendSimpleMessage has
\* been issued and has not answered yet
StoreOpInFlight ==
  \/ \E k \in 1..Len(creations) : creations[k].pc = "saveMapping"
  \/ \E i \in 1..Len(handlers) : handlers[i].pc = "deleteMapping"

\* C26 (as stated), for the runs in which no call fails: whenever no store
\* operation is in flight, the chat records of the store and the in-memory
\* table of the running bridge hold the same pairs.
C26_StoreMatchesTable ==
  (faults = 0 /\ enabled /\ ~StoreOpInFlight) => store = chatMappings

\* ------------------------------------------------ follow queue progress
InQueue(u) == \E n \in 1..Len(followQueue) : followQueue[n] = u
DispatchesOf(u) == {n \in 1..Len(dispatchLog) : dispatchLog[n].item = u}
Finished(u) ==
  \E n \in DispatchesOf(u) : dispatchLog[n].result \in {"ok", "failed"}

\* C27: with an interval that keeps firing, every item put on the follow
\* queue is eventually dequeued and dispatched and ends sent or failed, and
\* no item is dispatched more than once.
C27_EveryItemDispatched ==
  /\ \A u \in Users : InQueue(u) ~> Finished(u)
  /\ [](\A u \in Users : Cardinality(DispatchesOf(u)) <= 1)

\* every follower that was queued has been dispatched to the end, one of
\* them after waiting out an exhausted quota
C27_Witness ==
  /\ followersCache = Users
  /\ followQueue = <<>>
  /\ rateLimited # {}
  /\ \A n \in 1..Len(followerEvents) :
        WasQueued(followerEvents[n].user) => Finished(followerEvents[n].user)
  /\ \E n \in 1..Len(followerEvents) : WasQueued(followerEvents[n].user)

\* ------------------------------------------------ hourly follow counter
\* the follow action of drain k came back in this step
FollowAnswered(k) ==
  /\ k <= Len(drains)
  /\ drains[k].pc = "follow"
  /\ drains'[k].pc # "follow"

\* C28: followCount goes up by exactly one when a follow action succeeds and
\* stays when one fails, changes in no other way except a reset to zero that
\* happens only once the hourly window has elapsed, and never exceeds
\* maxFollowsPerHour.
C28_CounterSteps ==
  [][ /\ \A k \in 1..Len(dispatchLog) :
          FollowAnswered(k) =>
            /\ (dispatchLog'[k].result = "ok" =>
                  followCount' = followCount + 1)
            /\ (dispatchLog'[k].result = "failed" =>
                  followCount' = followCount)
            /\ dispatchLog'[k].result \in {"ok", "failed"}
      /\ ( (\A k \in 1..Len(dispatchLog) : ~FollowAnswered(k)) =>
            \/ followCount' = followCount
            \/ followCount' = 0 /\ now' > followResetTime )
      /\ followCount' <= maxFollowsPerHour ]_vars

\* the quota was used up, the window elapsed and reset the counter, and a
\* follow of the new window failed without being counted
C28_Witness ==
  /\ followCount = 0
  /\ \E m, n \in 1..Len(dispatchLog) :
        /\ Cardinality({j \in 1..Len(dispatchLog) :
              dispatchLog[j].window = dispatchLog[m].window
              /\ dispatchLog[j].result = "ok"}) = maxFollowsPerHour
        /\ dispatchLog[n].window > dispatchLog[m].window
        /\ dispatchLog[n].result = "failed"

\* ------------------------------------------------ topic verification cache
\* handler i calls sendSimpleMessage in this step
CallsSendSimple(i) ==
  /\ i <= Len(handlers)
  /\ handlers[i].pc \in {"saveUser", "awaitTopic", "mediaSend"}
  /\ handlers'[i].pc \in {"verify", "send", "deleteMapping"}

\* the getChat call of handler i came back in this step
VerifyAnswered(i) ==
  /\ i <= Len(handlers)
  /\ handlers[i].pc = "verify"
  /\ handlers'[i].pc # "verify"

\* C29: a call of verifyTopicExists for a topic with a cached answer takes
\* that answer without a getChat call, a call without one asks the
\* destination; a present or not-found answer is cached, an answer given
\* true on another error leaves the cache as it was, and a cached entry
\* changes only by a getChat answer for its topic and is never emptied.
C29_DefiniteAnswersCached ==
  [][ /\ \A i \in 1..Len(handlers) :
          CallsSendSimple(i) =>
            handlers'[i].pc =
              CASE topicVerificationCache[handlers'[i].topic] = "none" -> "verify"
                [] topicVerificationCache[handlers'[i].topic] = "true" -> "send"
                [] OTHER -> "deleteMapping"
      /\ \A i \in 1..Len(handlers) :
          VerifyAnswered(i) =>
            /\ (handlers'[i].verifyResp = "ok" =>
                  topicVerificationCache'[handlers[i].topic] = "true")
            /\ (handlers'[i].verifyResp = "notfound" =>
                  topicVerificationCache'[handlers[i].topic] = "false")
            /\ (handlers'[i].verifyResp = "error" =>
                  /\ topicVerificationCache' = topicVerificationCache
                  /\ handlers'[i].outcome # "dropped")
      /\ \A t \in Topics :
          /\ topicVerificationCache[t] # "none" =>
                topicVerificationCache'[t] # "none"
          /\ topicVerificationCache'[t] # topicVerificationCache[t] =>
                \E i \in 1..Len(handlers) :
                  VerifyAnswered(i) /\ handlers[i].topic = t ]_vars

\* a message was relayed on the cached answer of an earlier message's
\* verification, without a verification of its own
C29_Witness ==
  \E i, j \in 1..Len(handlers) :
    /\ i < j
    /\ handlers[i].topic = handlers[j].topic
    /\ handlers[i].verifyResp = "ok"
    /\ handlers[j].verifyResp = "none"
    /\ handlers[j].outcome = "relayed"
    /\ topicVerificationCache[handlers[j].topic] = "true"

\* ------------------------------------------------ filtered inbound messages
\* C30 (as stated): an inbound message whose body matches the filter set is
\* not sent and starts no topic creation (no topic, welcome message or
\* mapping record on account of it), also when its conversation is unmapped.
C30_FilteredNoEffect ==
  \A i \in 1..Len(handlers) :
    BlockedInbound(handlers[i].body) =>
      /\ handlers[i].tried = {}
      /\ handlers[i].delivered = {}
      /\ ~handlers[i].started

\* ------------------------------------------------ loaded filter entries
\* C31 (as stated): every entry of the loaded filter set is lowercase, so an
\* inbound message whose lowercase, trimmed body starts with the lowercase
\* form of a stored entry is suppressed: nothing is sent for it.
C31_StoredPrefixSuppresses ==
  /\ \A word \in filters : ToLowerCase(word) = word
  /\ \A i \in 1..Len(handlers) :
        (\E word \in filters :
            StartsWith(Trim(ToLowerCase(handlers[i].body)), ToLowerCase(word)))
          => handlers[i].tried = {}

\* ------------------------------------------------ connection-request sweeps
\* the requests sweep k has called approveFollowRequest for, in call order
ApprovedBy(k) ==
  LET OfSweep(a) == a.sweep = k
      calls == SelectSeq(approvals, OfSweep)
  IN [n \in 1..Len(calls) |-> calls[n].user]

\* C32: a sweep lists the pending requests once and calls
\* approveFollowRequest for every request of that list, in list order,
\* whatever followCount is; no step of a sweep changes followCount or the
\* follow queue.
C32_SweepApprovesAll ==
  /\ [](\A k \in 1..Len(sweeps) :
          /\ sweeps[k].pc = "done" => ApprovedBy(k) = sweeps[k].requests
          /\ sweeps[k].pc = "approve" =>
                ApprovedBy(k) = SubSeq(sweeps[k].requests, 1, sweeps[k].pos - 1)
          /\ sweeps[k].pc = "delay" =>
                ApprovedBy(k) = SubSeq(sweeps[k].requests, 1, sweeps[k].pos))
  /\ [][ /\ \A k \in 1..Len(sweeps) :
              sweeps[k].pc \in {"approve", "delay"} =>
                sweeps'[k].requests = sweeps[k].requests
        /\ (sweeps' # sweeps \/ approvals' # approvals) =>
              /\ followCount' = followCount
              /\ followQueue' = followQueue ]_vars

\* a sweep went through a list of two requests although the hourly quota
\* of follow actions was used up before its second approval
C32_Witness ==
  \E k \in 1..Len(sweeps) :
    /\ sweeps[k].pc = "done"
    /\ Len(sweeps[k].requests) = MaxRequests
    /\ followCount = maxFollowsPerHour
    /\ \E n \in 1..Len(approvals) :
          approvals[n].sweep = k /\ approvals[n].success

\* sweeps that are between their listing and the end of their loop
RunningSweeps ==
  {k \in 1..Len(sweeps) : sweeps[k].pc \in {"listing", "approve", "delay"}}

\* C38 (as stated): at most one sweep runs at a time, and no request is
\* approved again after a sweep has approved it.
C38_OneSweepAtATime ==
  /\ Cardinality(RunningSweeps) <= 1
  /\ \A m, n \in 1..Len(approvals) :
        (m < n /\ approvals[m].user = approvals[n].user)
          => ~approvals[m].success

\* ------------------------------------------------ welcome summary
\* C33 (as stated): every creation that made a topic has put exactly one
\* welcome summary into it by the time it settles.
C33_ExactlyOneWelcome ==
  \A k \in 1..Len(creations) :
    (creations[k].pc = "settled" /\ creations[k].topic # NoTopic)
      => creations[k].welcome = "sent"

\* getOrCreateTopic returns to handler i in this step, or suspends it on a
\* creation promise
LeavesSaveUser(i) ==
  /\ handlers[i].pc = "saveUser"
  /\ handlers'[i].pc # "saveUser"

\* C33 (amended): every creation that made a topic sends its welcome summary
\* exactly once, and the summary is in the topic unless that one send
\* failed; a creation without a topic sends none; a getOrCreateTopic call
\* that returns an existing mapping or joins a creation in flight starts no
\* creation and so no welcome.
C33_OneWelcomeSend ==
  /\ [](\A k \in 1..Len(creations) :
          /\ creations[k].topic = NoTopic => creations[k].welcome = "none"
          /\ creations[k].pc \in {"pin", "settled"} /\ creations[k].topic # NoTopic
                => creations[k].welcome \in {"sent", "failed"}
          /\ creations[k].pc = "pin" => creations[k].welcome = "sent")
  /\ [][ /\ \A k \in 1..Len(creations) :
              creations[k].welcome # "none" =>
                creations'[k].welcome = creations[k].welcome
        /\ \A i \in 1..Len(handlers) :
              ( /\ LeavesSaveUser(i)
                /\ \/ chatMappings[handlers[i].conv] # NoTopic
                   \/ creatingTopics[handlers[i].conv] # 0 )
              => /\ creations' = creations
                 /\ ~handlers'[i].started ]_vars

\* two messages of one conversation, the second joined the creation the
\* first had started, and the one welcome of that creation is in the topic
C33_Witness ==
  \E i, j \in 1..Len(handlers) :
    /\ i # j
    /\ handlers[i].started
    /\ ~handlers[j].started
    /\ handlers[j].promise = handlers[i].promise
    /\ handlers[i].resolved /\ handlers[j].resolved
    /\ creations[handlers[i].promise].welcome = "sent"
    /\ creations[handlers[i].promise].pc = "settled"

\* ------------------------------------------------ invalidation of a remapped conversation
\* C34 (as stated): a step that removes the mapping of a conversation from
\* chatMappings or its record from the store removes the topic that the
\* invalidating handler found missing, never a topic the conversation was
\* mapped to afterwards.
C34_RemovesOnlyMissingTopic ==
  [][ \A c \in Conv :
        /\ (chatMappings[c] # NoTopic /\ chatMappings'[c] = NoTopic) =>
              \E i \in HandlersOf(c) :
                handlers'[i].invalidated /\ handlers'[i].topic = chatMappings[c]
        /\ (store[c] # NoTopic /\ store'[c] = NoTopic) =>
              \E i \in HandlersOf(c) :
                /\ handlers[i].pc = "deleteMapping"
                /\ handlers'[i].pc # "deleteMapping"
                /\ handlers[i].topic = store[c] ]_vars

\* ------------------------------------------------ topic deleted after a positive verification
\* handler i went by a cached positive verification and awaits its send into
\* a topic that has been deleted since, with the conversation still mapped
\* to that topic
SendsIntoDeleted(i) ==
  /\ i <= Len(handlers)
  /\ handlers[i].pc = "send"
  /\ handlers[i].verifyResp = "none"
  /\ topicVerificationCache[handlers[i].topic] = "true"
  /\ handlers[i].topic \notin tgTopics
  /\ chatMappings[handlers[i].conv] = handlers[i].topic

C36_NewFollowerOnce ==
  \A n \in 1..Len(messageCalls) :
    messageCalls[n].pc = "done" =>
      /\ messageCalls[n].newFollower = (IF messageCalls[n].known THEN 0 ELSE 1)
      /\ ~messageCalls[n].known => messageCalls[n].user \in followersCache

\* ------------------------------------------------ events before ready
Arrivals(lo, hi) == [n \in 1..(hi - lo + 1) |-> lo + n - 1]
HandledEvents == [n \in 1..Len(realtimeHandled) |-> realtimeHandled[n].event]

\* C40: while the client is not ready every 'receive' event is buffered and
\* none is handled; when it becomes ready the buffered events are handled
\* once each in arrival order and the buffer is emptied, so that the events
\* handled are always the events arrived so far, in arrival order.
C40_BufferedThenReplayed ==
  /\ [](initPc \in {"idle", "connecting", "failed"} =>
          /\ realtimeHandled = <<>>
          /\ eventsToReplay = Arrivals(1, received))
  /\ [](initPc \in {"done", "disconnected"} =>
          /\ HandledEvents = Arrivals(1, received)
          /\ eventsToReplay = <<>>)
  /\ [][ /\ realtimeHandled' # realtimeHandled => ready'
        /\ (~ready /\ ready') =>
              /\ Len(realtimeHandled') = Len(realtimeHandled) + Len(eventsToReplay)
              /\ \A n \in 1..Len(eventsToReplay) :
                    realtimeHandled'[Len(realtimeHandled) + n] =
                      [event |-> eventsToReplay[n], replayed |-> TRUE] ]_vars

\* two events were buffered and replayed in order, a third came after ready
C40_Witness ==
  /\ ready
  /\ Len(realtimeHandled) = 3
  /\ realtimeHandled[1] = [event |-> 1, replayed |-> TRUE]
  /\ realtimeHandled[2] = [event |-> 2, replayed |-> TRUE]
  /\ realtimeHandled[3] = [event |-> 3, replayed |-> FALSE]

\* ------------------------------------------------ follow-back switched off
\* C37 (as stated): while auto-follow-back is switched off no follow action
\* is dispatched, also for items queued before it was switched off.
C37_NoDispatchWhileOff ==
  [][ Len(dispatchLog') > Len(dispatchLog) => autoFollowBack ]_vars

\* ------------------------------------------------ welcome before relayed messages
\* C39 (as stated): when a message has been relayed into a topic that a
\* creation made, the welcome summary of that creation is already in the
\* topic.
C39_WelcomeBeforeRelay ==
  \A i \in 1..Len(handlers), k \in 1..Len(creations) :
    ( /\ handlers[i].delivered # {}
      /\ creations[k].topic # NoTopic
      /\ creations[k].topic = handlers[i].topic )
    => creations[k].welcome = "sent"

====
